---- MODULE Spec2Model ----
(***************************************************************************)
(* A model of the provider's resource callbacks:                           *)
(*   - the WAFv2 Web ACL resource (create, read, update, delete and the    *)
(*     optimistic-lock retry helpers), internal/service/wafv2/web_acl.go;  *)
(*   - the Transfer certificate and Device Farm upload resources;          *)
(*   - filterWebACLRules / findShieldRule as pure functions;               *)
(*   - the provider-default / resource tag merge and the tag update;       *)
(*   - the Web ACL importer and the Read that follows an import;           *)
(*   - the EC2 finders: paginated list finders, single-item finders and    *)
(*     the route, association and existence finders built on them.         *)
(* The remote AWS service is the environment: it answers each call from    *)
(* its own state, may fail a call with a transient or internal error, and  *)
(* is changed out of band (Shield adds its mitigation rule, somebody       *)
(* deletes the object) between any two calls of a callback.                *)
(***************************************************************************)
EXTENDS Integers, Sequences, FiniteSets, TLC

VARIABLES
    kind,        \* which resource type this run manages
    pc,          \* position inside the running callback ("idle" between callbacks)
    op,          \* the callback that is running or ran last
    ret,         \* "none" while running, "nil" for success, else the error diagnostic
    dId,         \* d.Id()
    dIsNew,      \* d.IsNewResource()
    dLockToken,  \* d.Get("lock_token")
    dRules,      \* d.Get("rule"), a set of rule names
    dCfg,        \* the other configurable attributes (default_action / description / name)
    dChange,     \* d.HasChangesExcept(tags, tags_all) / d.HasChange(description)
    rExists,     \* the remote object exists
    rToken,      \* the remote Web ACL's current lock token
    rRules,      \* the remote Web ACL's rule list
    rCfg,        \* the remote object's other attributes
    nextToken,   \* the next lock token the remote service hands out
    lockToken,   \* the callback's local aclLockToken
    input,       \* the callback's local mutation input
    attempts,    \* calls made so far inside the running retry wrapper
    calls,       \* the remote calls of the running callback, with their answers
    fRules, fConfig, fOut, fPc,                 \* one application of filterWebACLRules
    defaultTags, configTags, tags, tagsAll, tPc, \* one apply of a tagged resource
    rTags,       \* the tags the remote service holds for the tagged resource
    oTagsAll,    \* the old value of d.GetChange("tags_all") of the last apply
    importId,    \* the identifier an import was asked for, as its pieces
    iData,       \* the ResourceData of the import
    iPc,         \* position of the import ("off" when none runs)
    rKind,       \* which EC2 objects the finders' remote holds
    rItems,      \* the EC2 objects, in the order the Describe call lists them
    fn,          \* the finder that is running: its name, input and second argument
    served,      \* what each NextPage of the running finder answered
    output,      \* the finder's local output slice
    fResult,     \* what the finder returned: <<value, error>> as a record
    fndPc        \* position of the finder ("off", "idle", "paging", "done")

lifeVars == <<kind, pc, op, ret, dId, dIsNew, dLockToken, dRules, dCfg, dChange,
              rExists, rToken, rRules, rCfg, nextToken, lockToken, input,
              attempts, calls>>
filterVars == <<fRules, fConfig, fOut, fPc>>
tagVars == <<defaultTags, configTags, tags, tagsAll, tPc, rTags, oTagsAll>>
importVars == <<importId, iData, iPc>>
findVars == <<rKind, rItems, fn, served, output, fResult, fndPc>>
vars == <<lifeVars, filterVars, tagVars, importVars, findVars>>

-----------------------------------------------------------------------------
(* Bounds *)

\* lock tokens the remote service hands out to new operations and out-of-band changes
MaxToken == 3
\* calls one retry wrapper makes before its timeout ends it
MaxAttempts == 2
\* longest rule list given to filterWebACLRules
MaxRules == 3

-----------------------------------------------------------------------------
(* Rule names and the Shield mitigation pattern *)

ShieldA == "ShieldMitigationRuleGroup_123456789012_0a1b2c3d-0a1b-0a1b-0a1b-0a1b2c3d4e5f_x"
ShieldB == "ShieldMitigationRuleGroup_210987654321_f5e4d3c2-b1a0-b1a0-b1a0-f5e4d3c2b1a0_y"
\* a near miss: the account part has four digits and there is no UUID
NotShield == "ShieldMitigationRuleGroup_1234_x"

\* every rule name of the model, in the order Set.List() yields them
RuleNames == <<"rule-a", ShieldA, NotShield, ShieldB>>

Range(s) == {s[i] : i \in 1..Len(s)}

\* the sequences over S of length at most n
SeqsUpTo(S, n) == UNION {[1..m -> S] : m \in 0..n}

\* regexache.MustCompile(pattern).MatchString(name), on the names of the model
MatchString(name) == name \in {ShieldA, ShieldB}

findShieldRule(rules) == SelectSeq(rules, MatchString)

filterWebACLRules(rules, configRules) ==
    LET sr == findShieldRule(rules)
        keep(r) == ~(r = sr[1] /\ ~(\E i \in 1..Len(configRules) : configRules[i] = r))
    IN  IF Len(sr) = 0 THEN rules ELSE SelectSeq(rules, keep)

\* expandWebACLRules(d.Get("rule").(*schema.Set).List())
expandWebACLRules(set) == SelectSeq(RuleNames, LAMBDA n : n \in set)

\* flattenWebACLRules followed by d.Set("rule", ...)
flattenWebACLRules(rules) == Range(rules)

-----------------------------------------------------------------------------
(* The remote service *)

ACLID == "acl-1"
NoInput == [LockToken |-> 0, Rules |-> <<>>, Cfg |-> "none"]

\* what GetWebACL may answer in the remote state
GetAnswers ==
    (IF rExists THEN {"OK"} ELSE {"WAFNonexistentItemException"})
        \cup {"WAFInternalErrorException"}

\* what UpdateWebACL or DeleteWebACL may answer to a call carrying lock token tok
MutationAnswers(api, tok) ==
    (IF ~rExists THEN {"WAFNonexistentItemException"}
     ELSE IF tok # rToken THEN {"WAFOptimisticLockException"}
     ELSE {"OK"} \cup (IF api = "DeleteWebACL" THEN {"WAFAssociatedItemException"} ELSE {}))
        \cup {"WAFUnavailableEntityException", "WAFInternalErrorException"}

\* a remote call as the log keeps it: where in the callback it was made, what it
\* carried and what the service answered
Call(api, tok, rules, cfg, ans) ==
    [at |-> pc, api |-> api, tok |-> tok, rules |-> rules, cfg |-> cfg, ans |-> ans]

\* a GetWebACL call and its answer, with the lock token the answer carries
GetCall(ans) == Call("GetWebACL", IF ans = "OK" THEN rToken ELSE 0, <<>>, "none", ans)

\* findWebACLByThreePartKey: the error it returns for GetWebACL's answer
findWebACLByThreePartKey(ans) ==
    CASE ans = "WAFNonexistentItemException" -> "NotFoundError"
      [] ans = "OK" -> "nil"
      [] OTHER -> ans

\* tfresource.NotFound(err)
NotFound(err) == err \in {"NotFoundError", "EmptyResultError"}

-----------------------------------------------------------------------------
(* Configurations the engine may ask for *)

DesiredRules == {{}, {"rule-a"}, {"rule-a", ShieldA}}
Cfgs == {"allow", "block"}

\* a retry wrapper without a timeout
Retries_forever(ans, retryable) == ans \in retryable

\* RetryWhenIsA / RetryWhenIsOneOf2: the wrapper calls again on a retryable error
\* until its timeout, modelled as MaxAttempts calls
Retries(ans, retryable) == ans \in retryable /\ attempts + 1 < MaxAttempts

\* a retry that forgets to take the refreshed lock token
refreshedInput_stale(in, tok) == in

\* a retry that builds its input anew and leaves the lock token out
refreshedInput_empty(in, tok) == [in EXCEPT !.LockToken = 0]

\* line 340 / line 394: the retried mutation carries the refreshed lock token
refreshedInput(in, tok) == [in EXCEPT !.LockToken = tok]

\* a retry that goes round again on a second conflict
retryReturn_again(ans, again) ==
    IF ans = "WAFOptimisticLockException"
    THEN <<again, "none">>
    ELSE <<"done", "nil">>

\* lines 345-348 / 402-405: how the retry helper returns after the retried mutation;
\* <<next position, diagnostic>>
retryReturn(ans, again) ==
    IF ans = "WAFOptimisticLockException"
    THEN <<"done", "changed since last refresh">>
    ELSE <<"done", "nil">>

\* a Read that removes the resource from state on any error
removedFromState_anyError(isNew, err) == ~isNew /\ err # "nil"

\* line 230: the object is gone and the resource is not new: remove it from state
removedFromState(isNew, err) == ~isNew /\ NotFound(err)

\* line 260: the state holds a lock token, which a new resource gets from its first
\* successful Read; the engine plans an update or a destroy from such a state
StateRead == dLockToken # 0

\* the remote Web ACL after an accepted UpdateWebACL
UpdateAccepted ==
    /\ rRules' = input.Rules
    /\ rCfg' = input.Cfg
    /\ rToken' = nextToken
    /\ nextToken' = nextToken + 1
    /\ UNCHANGED rExists

\* the remote Web ACL after an accepted DeleteWebACL
DeleteAccepted ==
    /\ rExists' = FALSE
    /\ rRules' = <<>>
    /\ UNCHANGED <<rCfg, rToken, nextToken>>

RemoteUnchanged == UNCHANGED <<rExists, rToken, rRules, rCfg, nextToken>>
DataUnchanged == UNCHANGED <<dId, dIsNew, dLockToken, dRules, dCfg, dChange>>
SideUnchanged == UNCHANGED <<filterVars, tagVars, findVars>>
OtherUnchanged == SideUnchanged /\ UNCHANGED importVars

-----------------------------------------------------------------------------
(* Web ACL: Create *)

resourceWebACLCreate ==
    /\ kind = "webacl" /\ pc = "idle" /\ dId = ""
    /\ nextToken <= MaxToken
    /\ \E rules \in DesiredRules, cfg \in Cfgs :
        /\ dRules' = rules
        /\ dCfg' = cfg
        /\ input' = [LockToken |-> 0, Rules |-> expandWebACLRules(rules), Cfg |-> cfg]
    /\ dIsNew' = TRUE
    /\ dChange' = TRUE
    /\ dLockToken' = 0
    /\ op' = "create" /\ pc' = "create_call" /\ ret' = "none"
    /\ attempts' = 0 /\ calls' = <<>>
    /\ UNCHANGED <<kind, dId, lockToken>>
    /\ RemoteUnchanged /\ OtherUnchanged

\* lines 210-222: CreateWebACL under RetryWhenIsA[WAFUnavailableEntityException]
resourceWebACLCreate_call ==
    /\ kind = "webacl" /\ pc = "create_call"
    /\ \E ans \in (IF rExists THEN {"WAFDuplicateItemException"} ELSE {"OK"})
                    \cup {"WAFUnavailableEntityException", "WAFInternalErrorException"} :
        /\ calls' = Append(calls, Call("CreateWebACL", 0, input.Rules, input.Cfg, ans))
        /\ IF ans = "OK"
           THEN /\ rExists' = TRUE
                /\ rRules' = input.Rules
                /\ rCfg' = input.Cfg
                /\ rToken' = nextToken
                /\ nextToken' = nextToken + 1
           ELSE RemoteUnchanged
        /\ IF Retries(ans, {"WAFUnavailableEntityException"})
           THEN /\ attempts' = attempts + 1
                /\ UNCHANGED <<pc, ret, dId>>
           ELSE /\ attempts' = 0
                /\ IF ans # "OK"
                   THEN pc' = "done" /\ ret' = "creating" /\ UNCHANGED dId
                   ELSE pc' = "read" /\ dId' = ACLID /\ UNCHANGED ret
    /\ UNCHANGED <<kind, op, dIsNew, dLockToken, dRules, dCfg, dChange, lockToken, input>>
    /\ OtherUnchanged

-----------------------------------------------------------------------------
(* Web ACL: Read *)

\* the engine refreshes the resource
ReadBegin ==
    /\ pc = "idle" /\ dId # ""
    /\ op' = "read" /\ pc' = "read" /\ ret' = "none"
    /\ attempts' = 0 /\ calls' = <<>>
    /\ UNCHANGED <<kind, lockToken, input>>
    /\ DataUnchanged /\ RemoteUnchanged /\ OtherUnchanged

resourceWebACLRead ==
    /\ kind = "webacl" /\ pc = "read"
    /\ \E ans \in GetAnswers :
        LET err == findWebACLByThreePartKey(ans) IN
        /\ calls' = Append(calls, GetCall(ans))
        /\ IF removedFromState(dIsNew, err)
           THEN /\ dId' = ""
                /\ ret' = "nil"
                /\ UNCHANGED <<dLockToken, dRules, dCfg>>
           ELSE IF err # "nil"
           THEN /\ ret' = "reading"
                /\ UNCHANGED <<dId, dLockToken, dRules, dCfg>>
           ELSE /\ dLockToken' = rToken
                /\ dRules' = flattenWebACLRules(
                                filterWebACLRules(rRules, expandWebACLRules(dRules)))
                /\ dCfg' = rCfg
                /\ ret' = "nil"
                /\ UNCHANGED dId
    /\ pc' = "done"
    /\ UNCHANGED <<kind, op, dIsNew, dChange, lockToken, input, attempts>>
    /\ RemoteUnchanged /\ OtherUnchanged

-----------------------------------------------------------------------------
(* Web ACL: Update *)

\* an Update that sends the Web ACL whatever has changed
HasChangesExcept_any(changed) == TRUE

\* line 277: d.HasChangesExcept(tags, tags_all), given whether the plan changes an
\* attribute other than the tags
HasChangesExcept(changed) == changed

\* lines 274-284: the engine calls Update with the planned values in d
resourceWebACLUpdate ==
    /\ kind = "webacl" /\ pc = "idle" /\ dId # ""
    /\ StateRead
    /\ nextToken <= MaxToken
    /\ \E rules \in DesiredRules, cfg \in Cfgs :
        /\ dRules' = rules
        /\ dCfg' = cfg
        /\ dChange' = (rules # dRules \/ cfg # dCfg)
        /\ input' = [LockToken |-> dLockToken, Rules |-> expandWebACLRules(rules),
                     Cfg |-> cfg]
        /\ pc' = IF HasChangesExcept(rules # dRules \/ cfg # dCfg)
                 THEN IF Len(findShieldRule(expandWebACLRules(rules))) = 0
                      THEN "upd_find" ELSE "upd_call"
                 ELSE "read"
    /\ lockToken' = dLockToken
    /\ op' = "update" /\ ret' = "none"
    /\ attempts' = 0 /\ calls' = <<>>
    /\ UNCHANGED <<kind, dId, dIsNew, dLockToken>>
    /\ RemoteUnchanged /\ OtherUnchanged

\* lines 285-291: look the Shield rule up and add it to the rules to send
resourceWebACLUpdate_find ==
    /\ kind = "webacl" /\ pc = "upd_find"
    /\ \E ans \in GetAnswers :
        LET err == findWebACLByThreePartKey(ans) IN
        /\ calls' = Append(calls, GetCall(ans))
        /\ IF err # "nil"
           THEN pc' = "done" /\ ret' = "reading" /\ UNCHANGED input
           ELSE /\ input' = [input EXCEPT !.Rules = input.Rules \o findShieldRule(rRules)]
                /\ pc' = "upd_call"
                /\ UNCHANGED ret
    /\ UNCHANGED <<kind, op, lockToken, attempts>>
    /\ DataUnchanged /\ RemoteUnchanged /\ OtherUnchanged

\* lines 318-328: UpdateWebACL under RetryWhenIsA[WAFUnavailableEntityException]
resourceWebACLUpdate_call ==
    /\ kind = "webacl" /\ pc = "upd_call"
    /\ \E ans \in MutationAnswers("UpdateWebACL", input.LockToken) :
        /\ calls' = Append(calls,
                Call("UpdateWebACL", input.LockToken, input.Rules, input.Cfg, ans))
        /\ IF ans = "OK" THEN UpdateAccepted ELSE RemoteUnchanged
        /\ IF Retries(ans, {"WAFUnavailableEntityException"})
           THEN /\ attempts' = attempts + 1
                /\ UNCHANGED <<pc, ret>>
           ELSE /\ attempts' = 0
                /\ IF ans = "WAFOptimisticLockException"
                   THEN pc' = "upd_refresh" /\ UNCHANGED ret
                   ELSE IF ans # "OK"
                   THEN pc' = "done" /\ ret' = "updating"
                   ELSE pc' = "read" /\ UNCHANGED ret
    /\ UNCHANGED <<kind, op, lockToken, input>>
    /\ DataUnchanged /\ OtherUnchanged

\* lines 335-340 and 350: refresh the lock token after the conflict
retryResourceWebACLUpdateOptmisticLockFailure ==
    /\ kind = "webacl" /\ pc = "upd_refresh"
    /\ \E ans \in GetAnswers :
        LET err == findWebACLByThreePartKey(ans) IN
        /\ calls' = Append(calls, GetCall(ans))
        /\ IF err # "nil"
           THEN pc' = "done" /\ ret' = "refreshing" /\ UNCHANGED input
           ELSE IF rToken # lockToken
           THEN /\ input' = refreshedInput(input, rToken)
                /\ pc' = "upd_retry"
                /\ UNCHANGED ret
           ELSE pc' = "done" /\ ret' = "nil" /\ UNCHANGED input
    /\ UNCHANGED <<kind, op, lockToken, attempts>>
    /\ DataUnchanged /\ RemoteUnchanged /\ OtherUnchanged

\* lines 341-348: UpdateWebACL again, under RetryWhenIsOneOf2
retryResourceWebACLUpdateOptmisticLockFailure_call ==
    /\ kind = "webacl" /\ pc = "upd_retry"
    /\ \E ans \in MutationAnswers("UpdateWebACL", input.LockToken) :
        /\ calls' = Append(calls,
                Call("UpdateWebACL", input.LockToken, input.Rules, input.Cfg, ans))
        /\ IF ans = "OK" THEN UpdateAccepted ELSE RemoteUnchanged
        /\ IF Retries(ans, {"WAFAssociatedItemException", "WAFUnavailableEntityException"})
           THEN /\ attempts' = attempts + 1
                /\ UNCHANGED <<pc, ret>>
           ELSE /\ attempts' = 0
                /\ pc' = retryReturn(ans, "upd_refresh")[1]
                /\ ret' = retryReturn(ans, "upd_refresh")[2]
    /\ UNCHANGED <<kind, op, lockToken, input>>
    /\ DataUnchanged /\ OtherUnchanged

-----------------------------------------------------------------------------
(* Web ACL: Delete *)

\* lines 353-366
resourceWebACLDelete ==
    /\ kind = "webacl" /\ pc = "idle" /\ dId # ""
    /\ StateRead
    /\ lockToken' = dLockToken
    /\ input' = [LockToken |-> dLockToken, Rules |-> <<>>, Cfg |-> "none"]
    /\ op' = "delete" /\ pc' = "del_call" /\ ret' = "none"
    /\ attempts' = 0 /\ calls' = <<>>
    /\ UNCHANGED kind
    /\ DataUnchanged /\ RemoteUnchanged /\ OtherUnchanged

\* lines 369-383: DeleteWebACL under RetryWhenIsOneOf2
resourceWebACLDelete_call ==
    /\ kind = "webacl" /\ pc = "del_call"
    /\ \E ans \in MutationAnswers("DeleteWebACL", input.LockToken) :
        /\ calls' = Append(calls, Call("DeleteWebACL", input.LockToken, <<>>, "none", ans))
        /\ IF ans = "OK" THEN DeleteAccepted ELSE RemoteUnchanged
        /\ IF Retries(ans, {"WAFAssociatedItemException", "WAFUnavailableEntityException"})
           THEN /\ attempts' = attempts + 1
                /\ UNCHANGED <<pc, ret>>
           ELSE /\ attempts' = 0
                /\ IF ans = "WAFOptimisticLockException"
                   THEN pc' = "del_refresh" /\ UNCHANGED ret
                   ELSE IF ans = "WAFNonexistentItemException"
                   THEN pc' = "done" /\ ret' = "nil"
                   ELSE IF ans # "OK"
                   THEN pc' = "done" /\ ret' = "deleting"
                   ELSE pc' = "done" /\ ret' = "nil"
    /\ UNCHANGED <<kind, op, lockToken, input>>
    /\ DataUnchanged /\ OtherUnchanged

\* lines 387-397 and 407
retryResourceWebACLDeleteOptmisticLockFailure ==
    /\ kind = "webacl" /\ pc = "del_refresh"
    /\ \E ans \in GetAnswers :
        LET err == findWebACLByThreePartKey(ans) IN
        /\ calls' = Append(calls, GetCall(ans))
        /\ IF err # "nil"
           THEN pc' = "done" /\ ret' = "refreshing" /\ UNCHANGED input
           ELSE IF rToken # lockToken
           THEN /\ input' = refreshedInput(input, rToken)
                /\ pc' = "del_retry"
                /\ UNCHANGED ret
           ELSE pc' = "done" /\ ret' = "nil" /\ UNCHANGED input
    /\ UNCHANGED <<kind, op, lockToken, attempts>>
    /\ DataUnchanged /\ RemoteUnchanged /\ OtherUnchanged

\* lines 398-405
retryResourceWebACLDeleteOptmisticLockFailure_call ==
    /\ kind = "webacl" /\ pc = "del_retry"
    /\ \E ans \in MutationAnswers("DeleteWebACL", input.LockToken) :
        /\ calls' = Append(calls, Call("DeleteWebACL", input.LockToken, <<>>, "none", ans))
        /\ IF ans = "OK" THEN DeleteAccepted ELSE RemoteUnchanged
        /\ IF Retries(ans, {"WAFAssociatedItemException", "WAFUnavailableEntityException"})
           THEN /\ attempts' = attempts + 1
                /\ UNCHANGED <<pc, ret>>
           ELSE /\ attempts' = 0
                /\ pc' = retryReturn(ans, "del_refresh")[1]
                /\ ret' = retryReturn(ans, "del_refresh")[2]
    /\ UNCHANGED <<kind, op, lockToken, input>>
    /\ DataUnchanged /\ OtherUnchanged

-----------------------------------------------------------------------------
(* Web ACL: import *)

WebACLName == "acl-name"
WebACLScope == "REGIONAL"
Sep == "/"

\* strings.Split(id, "/") of the identifier whose pieces are id: a piece is the
\* separator or a string without one
RECURSIVE Split(_)
Split(id) ==
    IF id = <<>> THEN <<"">>
    ELSE LET rest == Split(Tail(id)) IN
         IF Head(id) = Sep
         THEN <<"">> \o rest
         ELSE <<Head(id) \o Head(rest)>> \o Tail(rest)

\* the identifiers the engine is asked to import
ImportIds ==
    { <<ACLID, Sep, WebACLName, Sep, WebACLScope>>,
      <<ACLID, Sep, "other-name", Sep, WebACLScope>>,
      <<ACLID, Sep, WebACLName>>,
      <<ACLID, Sep, Sep, WebACLScope>> }

NoData == [Id |-> "", Name |-> "", Scope |-> "", LockToken |-> 0, Rules |-> {},
           Cfg |-> "none"]

ImportIdle == importId = <<>> /\ iData = NoData /\ iPc = "off"

\* what GetWebACL may answer for the key of an imported resource
GetAnswersFor(id, name, scope) ==
    (IF rExists /\ <<id, name, scope>> = <<ACLID, WebACLName, WebACLScope>>
     THEN {"OK"} ELSE {"WAFNonexistentItemException"})
        \cup {"WAFInternalErrorException"}

\* an importer that looks at the first three parts only
StateContext_lenient(id) ==
    LET idParts == Split(id) IN
    IF Len(idParts) < 3 \/ idParts[1] = "" \/ idParts[2] = "" \/ idParts[3] = ""
    THEN [err |-> "Unexpected format of ID, expected ID/NAME/SCOPE", data |-> NoData]
    ELSE [err |-> "nil",
          data |-> [NoData EXCEPT !.Id = idParts[1], !.Name = idParts[2],
                                  !.Scope = idParts[3]]]

\* lines 47-59: the importer's StateContext, given d.Id(); data is the resource it
\* returns, NoData for none
StateContext(id) ==
    LET idParts == Split(id) IN
    IF Len(idParts) # 3 \/ idParts[1] = "" \/ idParts[2] = "" \/ idParts[3] = ""
    THEN [err |-> "Unexpected format of ID, expected ID/NAME/SCOPE", data |-> NoData]
    ELSE [err |-> "nil",
          data |-> [NoData EXCEPT !.Id = idParts[1], !.Name = idParts[2],
                                  !.Scope = idParts[3]]]

\* lines 46-60: the importer, run by the import step that follows an apply
resourceWebACLImport ==
    /\ kind = "webacl" /\ pc = "done" /\ ret = "nil" /\ op \in {"create", "update"}
    /\ dId # "" /\ iPc = "off"
    /\ \E id \in ImportIds :
        LET r == StateContext(id) IN
        /\ importId' = id
        /\ IF r.err # "nil"
           THEN iPc' = "failed" /\ UNCHANGED iData
           ELSE iData' = r.data /\ iPc' = "read"
    /\ UNCHANGED lifeVars /\ SideUnchanged

\* lines 225-272: Read of the imported resource, which is not new and has no rule yet
resourceWebACLRead_imported ==
    /\ kind = "webacl" /\ iPc = "read"
    /\ \E ans \in GetAnswersFor(iData.Id, iData.Name, iData.Scope) :
        LET err == findWebACLByThreePartKey(ans) IN
        IF removedFromState(FALSE, err)
        THEN iData' = [iData EXCEPT !.Id = ""] /\ iPc' = "done"
        ELSE IF err # "nil"
        THEN iPc' = "failed" /\ UNCHANGED iData
        ELSE /\ iData' = [iData EXCEPT
                    !.LockToken = rToken,
                    !.Name = WebACLName,
                    !.Rules = flattenWebACLRules(
                                filterWebACLRules(rRules, expandWebACLRules(iData.Rules))),
                    !.Cfg = rCfg]
             /\ iPc' = "done"
    /\ UNCHANGED <<importId, lifeVars>> /\ SideUnchanged

-----------------------------------------------------------------------------
(* The engine and the environment *)

\* the callback returned: a Delete without error removes the resource from state
Return ==
    /\ pc = "done" /\ iPc # "read"
    /\ pc' = "idle"
    /\ dIsNew' = FALSE
    /\ dId' = IF op = "delete" /\ ret = "nil" THEN "" ELSE dId
    /\ op' = "none" /\ ret' = "none" /\ dChange' = FALSE
    /\ lockToken' = 0 /\ input' = NoInput /\ attempts' = 0 /\ calls' = <<>>
    /\ importId' = <<>> /\ iData' = NoData /\ iPc' = "off"
    /\ UNCHANGED <<kind, dLockToken, dRules, dCfg>>
    /\ RemoteUnchanged /\ SideUnchanged

\* Shield's automatic application layer response adds its rule group to the Web ACL
ShieldEnable ==
    /\ kind = "webacl" /\ rExists
    /\ nextToken <= MaxToken
    /\ Len(findShieldRule(rRules)) = 0
    /\ rRules' = Append(rRules, ShieldA)
    /\ rToken' = nextToken
    /\ nextToken' = nextToken + 1
    /\ UNCHANGED <<kind, pc, op, ret, lockToken, input, attempts, calls, rExists, rCfg>>
    /\ DataUnchanged /\ OtherUnchanged

\* ... and removes it again when the automatic response is disabled
ShieldDisable ==
    /\ kind = "webacl" /\ rExists
    /\ nextToken <= MaxToken
    /\ ShieldA \in Range(rRules)
    /\ rRules' = SelectSeq(rRules, LAMBDA r : r # ShieldA)
    /\ rToken' = nextToken
    /\ nextToken' = nextToken + 1
    /\ UNCHANGED <<kind, pc, op, ret, lockToken, input, attempts, calls, rExists, rCfg>>
    /\ DataUnchanged /\ OtherUnchanged

\* the remote object is deleted out of band
Disappears ==
    /\ rExists
    /\ rExists' = FALSE
    /\ rRules' = <<>>
    /\ UNCHANGED <<kind, pc, op, ret, lockToken, input, attempts, calls, rCfg, rToken,
                   nextToken>>
    /\ DataUnchanged /\ OtherUnchanged

-----------------------------------------------------------------------------
(* Transfer certificate *)

CERTID == "cert-1"
Descriptions == {"first", "second"}

\* what a Transfer or Device Farm call on the object may answer
ObjectAnswers(notFoundCode) ==
    (IF rExists THEN {"OK"} ELSE {notFoundCode}) \cup {"InternalServiceError"}

\* lines 96-127: ImportCertificate, then Read
resourceCertificateCreate ==
    /\ kind = "certificate" /\ pc = "idle" /\ dId = ""
    /\ \E desc \in Descriptions,
          ans \in (IF rExists THEN {} ELSE {"OK"}) \cup {"InternalServiceError"} :
        /\ dCfg' = desc
        /\ calls' = <<Call("ImportCertificate", 0, <<>>, desc, ans)>>
        /\ IF ans = "OK"
           THEN /\ rExists' = TRUE /\ rCfg' = desc
                /\ dId' = CERTID
                /\ pc' = "read" /\ ret' = "none"
           ELSE /\ UNCHANGED <<rExists, rCfg, dId>>
                /\ pc' = "done" /\ ret' = "importing"
    /\ dIsNew' = TRUE /\ dChange' = TRUE
    /\ op' = "create" /\ attempts' = 0
    /\ UNCHANGED <<kind, dLockToken, dRules, lockToken, input, rToken, rRules, nextToken>>
    /\ OtherUnchanged

\* lines 129-156
resourceCertificateRead ==
    /\ kind = "certificate" /\ pc = "read"
    /\ \E ans \in ObjectAnswers("ResourceNotFoundException") :
        LET err == IF ans = "ResourceNotFoundException" THEN "NotFoundError"
                   ELSE IF ans = "OK" THEN "nil" ELSE ans IN
        /\ calls' = Append(calls, Call("DescribeCertificate", 0, <<>>, "none", ans))
        /\ IF ~dIsNew /\ NotFound(err)
           THEN dId' = "" /\ ret' = "nil" /\ UNCHANGED dCfg
           ELSE IF err # "nil"
           THEN ret' = "reading" /\ UNCHANGED <<dId, dCfg>>
           ELSE dCfg' = rCfg /\ ret' = "nil" /\ UNCHANGED dId
    /\ pc' = "done"
    /\ UNCHANGED <<kind, op, dIsNew, dLockToken, dRules, dChange, lockToken, input,
                   attempts>>
    /\ RemoteUnchanged /\ OtherUnchanged

\* lines 158-176: UpdateCertificate only when description changed, then Read
resourceCertificateUpdate ==
    /\ kind = "certificate" /\ pc = "idle" /\ dId # ""
    /\ \E desc \in Descriptions :
        /\ dCfg' = desc
        /\ dChange' = (desc # dCfg)
        /\ IF desc # dCfg
           THEN \E ans \in ObjectAnswers("ResourceNotFoundException") :
                /\ calls' = <<Call("UpdateCertificate", 0, <<>>, desc, ans)>>
                /\ IF ans = "OK"
                   THEN rCfg' = desc /\ pc' = "read" /\ ret' = "none"
                   ELSE UNCHANGED rCfg /\ pc' = "done" /\ ret' = "updating"
           ELSE calls' = <<>> /\ UNCHANGED rCfg /\ pc' = "read" /\ ret' = "none"
    /\ op' = "update" /\ attempts' = 0
    /\ UNCHANGED <<kind, dId, dIsNew, dLockToken, dRules, lockToken, input, rExists,
                   rToken, rRules, nextToken>>
    /\ OtherUnchanged

\* a Delete that does not tolerate not-found
certificateDeleteReturn_strict(ans) == IF ans # "OK" THEN "deleting" ELSE "nil"

\* lines 187-195: the diagnostic Delete returns for DeleteCertificate's answer
certificateDeleteReturn(ans) ==
    IF ans = "ResourceNotFoundException" THEN "nil"
    ELSE IF ans # "OK" THEN "deleting" ELSE "nil"

\* lines 178-196
resourceCertificateDelete ==
    /\ kind = "certificate" /\ pc = "idle" /\ dId # ""
    /\ \E ans \in ObjectAnswers("ResourceNotFoundException") :
        /\ calls' = <<Call("DeleteCertificate", 0, <<>>, "none", ans)>>
        /\ rExists' = IF ans = "OK" THEN FALSE ELSE rExists
        /\ ret' = certificateDeleteReturn(ans)
    /\ op' = "delete" /\ pc' = "done" /\ attempts' = 0
    /\ UNCHANGED <<kind, lockToken, input, rToken, rRules, rCfg, nextToken>>
    /\ DataUnchanged /\ OtherUnchanged

-----------------------------------------------------------------------------
(* Device Farm upload *)

UPLOADARN == "arn:upload-1"
UploadNames == {"app.apk", "tests.zip"}

\* lines 77-101: CreateUpload, then Read
resourceUploadCreate ==
    /\ kind = "upload" /\ pc = "idle" /\ dId = ""
    /\ \E name \in UploadNames,
          ans \in (IF rExists THEN {} ELSE {"OK"}) \cup {"InternalServiceError"} :
        /\ dCfg' = name
        /\ calls' = <<Call("CreateUpload", 0, <<>>, name, ans)>>
        /\ IF ans = "OK"
           THEN /\ rExists' = TRUE /\ rCfg' = name
                /\ dId' = UPLOADARN
                /\ pc' = "read" /\ ret' = "none"
           ELSE /\ UNCHANGED <<rExists, rCfg, dId>>
                /\ pc' = "done" /\ ret' = "creating"
    /\ dIsNew' = TRUE /\ dChange' = TRUE
    /\ op' = "create" /\ attempts' = 0
    /\ UNCHANGED <<kind, dLockToken, dRules, lockToken, input, rToken, rRules, nextToken>>
    /\ OtherUnchanged

\* lines 103-136
resourceUploadRead ==
    /\ kind = "upload" /\ pc = "read"
    /\ \E ans \in ObjectAnswers("NotFoundException") :
        LET err == IF ans = "NotFoundException" THEN "NotFoundError"
                   ELSE IF ans = "OK" THEN "nil" ELSE ans IN
        /\ calls' = Append(calls, Call("GetUpload", 0, <<>>, "none", ans))
        /\ IF ~dIsNew /\ NotFound(err)
           THEN dId' = "" /\ ret' = "nil" /\ UNCHANGED dCfg
           ELSE IF err # "nil"
           THEN ret' = "reading" /\ UNCHANGED <<dId, dCfg>>
           ELSE /\ dCfg' = rCfg
                \* lines 128-131: decodeProjectARN may reject the upload's ARN
                /\ ret' \in {"nil", "decoding"}
                /\ UNCHANGED dId
    /\ pc' = "done"
    /\ UNCHANGED <<kind, op, dIsNew, dLockToken, dRules, dChange, lockToken, input,
                   attempts>>
    /\ RemoteUnchanged /\ OtherUnchanged

\* lines 138-161: UpdateUpload is always called, then Read
resourceUploadUpdate ==
    /\ kind = "upload" /\ pc = "idle" /\ dId # ""
    /\ \E name \in UploadNames, ans \in ObjectAnswers("NotFoundException") :
        /\ dCfg' = name
        /\ dChange' = (name # dCfg)
        /\ calls' = <<Call("UpdateUpload", 0, <<>>, name, ans)>>
        /\ IF ans = "OK"
           THEN rCfg' = name /\ pc' = "read" /\ ret' = "none"
           ELSE UNCHANGED rCfg /\ pc' = "done" /\ ret' = "updating"
    /\ op' = "update" /\ attempts' = 0
    /\ UNCHANGED <<kind, dId, dIsNew, dLockToken, dRules, lockToken, input, rExists,
                   rToken, rRules, nextToken>>
    /\ OtherUnchanged

\* lines 163-181
resourceUploadDelete ==
    /\ kind = "upload" /\ pc = "idle" /\ dId # ""
    /\ \E ans \in ObjectAnswers("NotFoundException") :
        /\ calls' = <<Call("DeleteUpload", 0, <<>>, "none", ans)>>
        /\ rExists' = IF ans = "OK" THEN FALSE ELSE rExists
        /\ ret' = IF ans # "OK"
                  THEN IF ans = "NotFoundException" THEN "nil" ELSE "deleting"
                  ELSE "nil"
    /\ op' = "delete" /\ pc' = "done" /\ attempts' = 0
    /\ UNCHANGED <<kind, lockToken, input, rToken, rRules, rCfg, nextToken>>
    /\ DataUnchanged /\ OtherUnchanged

-----------------------------------------------------------------------------
(* EC2 finders: values *)

\* longest list of VPCs, volumes or attachments the remote holds
MaxItems == 3
\* items one page of a Describe call carries
PageSize == 2
\* longest route list and association list of a route table
MaxRoutes == 2

\* a nil pointer result
Nil == [Id |-> "<nil>"]
NoCall == [name |-> "none", input |-> [Ids |-> {}, AssocId |-> "", MainVpc |-> ""],
           id |-> "", arg |-> ""]
NoResult == [out |-> Nil, err |-> "none"]

\* the sequences over S of length at most n without a repeated element
DistinctSeqs(S, n) ==
    {q \in UNION {[1..m -> S] : m \in 0..n} :
        \A i, j \in DOMAIN q : i # j => q[i] # q[j]}

\* the sequences over S of length at most n whose elements have distinct Id
DistinctIdSeqs(S, n) ==
    {q \in UNION {[1..m -> S] : m \in 0..n} :
        \A i, j \in DOMAIN q : i # j => q[i].Id # q[j].Id}

ItemIds(prefix) == {prefix \o ToString(i) : i \in 1..MaxItems}

\* VPCs, EBS volumes and transit gateway attachments: nothing but their id matters
PlainItems(prefix) == {[Id |-> id] : id \in ItemIds(prefix)}

\* awstypes.Route
Destinations4 == {"10.0.0.0/16", "10.1.0.0/16"}
Destinations6 == {"2001:db8::/32"}
PrefixLists == {"pl-1"}
Route(cidr, cidr6, pl, gw) ==
    [DestinationCidrBlock |-> cidr, DestinationIpv6CidrBlock |-> cidr6,
     DestinationPrefixListId |-> pl, GatewayId |-> gw]
Routes ==
    {Route(c, "", "", g) : c \in Destinations4, g \in {"igw-1", "nat-1"}}
        \cup {Route("", c, "", g) : c \in Destinations6, g \in {"igw-1", "nat-1"}}
        \cup {Route("", "", c, g) : c \in PrefixLists, g \in {"igw-1", "nat-1"}}

\* awstypes.RouteTableAssociation; State "" is a nil AssociationState
Associations ==
    [Id : {"rtbassoc-1", "rtbassoc-2"}, Main : BOOLEAN,
     State : {"", "associated", "disassociated"}]

\* awstypes.RouteTable
RouteTable(id, vpc, routes, assocs, vgws) ==
    [Id |-> id, VpcId |-> vpc, Routes |-> routes, Associations |-> assocs,
     PropagatingVgws |-> vgws]

\* a second route table of the same VPC, with a main association of its own
OtherTable ==
    RouteTable("rtb-2", "vpc-1", <<>>,
               <<[Id |-> "rtbassoc-9", Main |-> TRUE, State |-> "associated"]>>, <<>>)

\* the route tables the remote may hold: one table whose routes, associations or
\* propagating gateways vary, alone or next to the second table; or none
RouteTableWorlds ==
    {<<>>}
    \cup {<<RouteTable("rtb-1", "vpc-1", r, <<>>, <<>>)>> : r \in SeqsUpTo(Routes, MaxRoutes)}
    \cup {<<RouteTable("rtb-1", "vpc-1", <<>>, a, <<>>)>> :
                a \in DistinctIdSeqs(Associations, MaxRoutes)}
    \cup {<<RouteTable("rtb-1", "vpc-1", <<>>, a, <<>>), OtherTable>> :
                a \in DistinctIdSeqs(Associations, MaxRoutes)}
    \cup {<<RouteTable("rtb-1", "vpc-1", <<>>, <<>>, v)>> :
                v \in DistinctSeqs({[GatewayId |-> "vgw-1"], [GatewayId |-> "vgw-2"]},
                                   MaxRoutes)}

\* awstypes.VpcEndpoint
EndpointWorlds ==
    {<<>>}
    \cup {<<[Id |-> "vpce-1", State |-> st, RouteTableIds |-> r, Groups |-> g,
             SubnetIds |-> sn]>> :
            st \in {"available", "deleted"},
            r \in {<<>>, <<"rtb-1">>, <<"rtb-2", "rtb-1">>},
            g \in {<<>>, <<[GroupId |-> "sg-1"]>>,
                   <<[GroupId |-> "sg-2"], [GroupId |-> "sg-1"]>>},
            sn \in {<<>>, <<"subnet-1">>, <<"subnet-2", "subnet-1">>}}
    \cup {<<[Key |-> "vpce-1", Id |-> "vpce-2", State |-> st,
             RouteTableIds |-> <<"rtb-1">>, Groups |-> <<[GroupId |-> "sg-1"]>>,
             SubnetIds |-> <<"subnet-1">>]>> :
            st \in {"available", "deleted"}}

\* the objects the by-ID finders look up: Id is the identifier the object carries,
\* Key the identifier under which the service, which is eventually consistent,
\* answers with it
ByIDItems(prefix, states) ==
    [Key : {prefix \o "1", prefix \o "2"}, Id : {prefix \o "1", prefix \o "2"},
     State : states]

ByIDWorlds(prefix, states) == DistinctIdSeqs(ByIDItems(prefix, states), PageSize)

\* the states of the objects that have one
GatewayStates == {"available", "deleting", "deleted"}
ServiceStates == {"Available", "Deleting", "Deleted", "Failed"}
NetworkInterfaceStatuses == {"available", "in-use"}

-----------------------------------------------------------------------------
(* EC2 finders: the Describe calls *)

\* the Describe call behind each list finder
Paginators ==
    [findVPCsV2 |-> "DescribeVpcs",
     findRouteTables |-> "DescribeRouteTables",
     findEBSVolumesV2 |-> "DescribeVolumes",
     findTransitGatewayAttachmentsV2 |-> "DescribeTransitGatewayAttachments",
     findVPCEndpointsV2 |-> "DescribeVpcEndpoints",
     findNetworkACLsV2 |-> "DescribeNetworkAcls",
     findNetworkInterfacesV2 |-> "DescribeNetworkInterfaces",
     findVPCEndpointServiceConfigurationsV2 |-> "DescribeVpcEndpointServiceConfigurations",
     findClientVPNEndpoints |-> "DescribeClientVpnEndpoints",
     findCarrierGateways |-> "DescribeCarrierGateways"]

\* the list finders that make one Describe call, without a paginator
Describers ==
    [findVPNConnections |-> "DescribeVpnConnections",
     findVPNGateways |-> "DescribeVpnGateways",
     findCustomerGateways |-> "DescribeCustomerGateways"]

\* the error code each list finder turns into a NotFoundError
NotFoundCodes ==
    [findVPCsV2 |-> "InvalidVpcID.NotFound",
     findRouteTables |-> "InvalidRouteTableID.NotFound",
     findEBSVolumesV2 |-> "InvalidVolume.NotFound",
     findTransitGatewayAttachmentsV2 |-> "InvalidTransitGatewayAttachmentID.NotFound",
     findVPCEndpointsV2 |-> "InvalidVpcEndpointId.NotFound",
     findNetworkACLsV2 |-> "InvalidNetworkAclID.NotFound",
     findNetworkInterfacesV2 |-> "InvalidNetworkInterfaceID.NotFound",
     findVPCEndpointServiceConfigurationsV2 |-> "InvalidVpcEndpointServiceId.NotFound",
     findClientVPNEndpoints |-> "InvalidClientVpnEndpointId.NotFound",
     findCarrierGateways |-> "InvalidCarrierGatewayID.NotFound",
     findVPNConnections |-> "InvalidVpnConnectionID.NotFound",
     findVPNGateways |-> "InvalidVpnGatewayID.NotFound",
     findCustomerGateways |-> "InvalidCustomerGatewayID.NotFound"]

\* a Describe input: the ids asked for (none: all objects) and the two filters the
\* route table finders use
Input(ids, assocId, mainVpc) == [Ids |-> ids, AssocId |-> assocId, MainVpc |-> mainVpc]

\* the identifier under which the service answers with an object
KeyOf(item) == IF "Key" \in DOMAIN item THEN item.Key ELSE item.Id

\* the service's side of a Describe call: the objects the input selects
Selected(in, item) ==
    /\ in.Ids = {} \/ KeyOf(item) \in in.Ids
    /\ in.AssocId = "" \/ \E i \in DOMAIN item.Associations :
                                item.Associations[i].Id = in.AssocId
    /\ in.MainVpc = "" \/ (/\ item.VpcId = in.MainVpc
                            /\ \E i \in DOMAIN item.Associations :
                                    item.Associations[i].Main)

\* the service answers an id it does not know with the not-found error code
UnknownIds(in) == in.Ids \ {KeyOf(rItems[i]) : i \in DOMAIN rItems}

\* the pages a paginator yields for a list of objects: at least one, each but the
\* last one full
RECURSIVE Paginate(_)
Paginate(items) ==
    IF Len(items) <= PageSize THEN <<items>>
    ELSE <<SubSeq(items, 1, PageSize)>> \o Paginate(SubSeq(items, PageSize + 1, Len(items)))

\* one answer of NextPage as the log keeps it
Page(items) == [err |-> "nil", items |-> items]
Failed(code) == [err |-> code, items |-> <<>>]

-----------------------------------------------------------------------------
(* EC2 finders: the functions over the list finder's result *)

Result(out, err) == [out |-> out, err |-> err]

\* tfresource.AssertSingleValueResult
AssertSingleValueResult(a) ==
    IF Len(a) = 0 THEN Result(Nil, "EmptyResultError")
    ELSE IF Len(a) > 1 THEN Result(Nil, "TooManyResultsError")
    ELSE Result(a[1], "nil")

\* lines 77-85
findVPCV2(list) ==
    IF list.err # "nil" THEN Result(Nil, list.err) ELSE AssertSingleValueResult(list.out)

\* a route table finder that takes the first of several route tables
findRouteTable_first(list) ==
    IF list.err # "nil" THEN Result(Nil, list.err)
    ELSE IF Len(list.out) = 0 THEN Result(Nil, "EmptyResultError")
    ELSE Result(list.out[1], "nil")

\* lines 233-241
findRouteTable(list) ==
    IF list.err # "nil" THEN Result(Nil, list.err) ELSE AssertSingleValueResult(list.out)

\* lines 1518-1526
findTransitGatewayAttachmentV2(list) ==
    IF list.err # "nil" THEN Result(Nil, list.err) ELSE AssertSingleValueResult(list.out)

\* lines 527-535
findVPCEndpointV2(list) ==
    IF list.err # "nil" THEN Result(Nil, list.err) ELSE AssertSingleValueResult(list.out)

\* lines 499-525
findVPCEndpointByIDV2(list, id) ==
    LET r == findVPCEndpointV2(list) IN
    IF r.err # "nil" THEN r
    ELSE IF r.out.State = "deleted" THEN Result(Nil, "NotFoundError")
    ELSE IF r.out.Id # id THEN Result(Nil, "NotFoundError")
    ELSE r

\* lines 177-185
findNetworkACLV2(list) ==
    IF list.err # "nil" THEN Result(Nil, list.err) ELSE AssertSingleValueResult(list.out)

\* lines 349-357
findNetworkInterfaceV2(list) ==
    IF list.err # "nil" THEN Result(Nil, list.err) ELSE AssertSingleValueResult(list.out)

\* lines 580-588
findVPCEndpointServiceConfigurationV2(list) ==
    IF list.err # "nil" THEN Result(Nil, list.err) ELSE AssertSingleValueResult(list.out)

\* lines 1060-1068
findClientVPNEndpoint(list) ==
    IF list.err # "nil" THEN Result(Nil, list.err) ELSE AssertSingleValueResult(list.out)

\* lines 1294-1302
findCarrierGateway(list) ==
    IF list.err # "nil" THEN Result(Nil, list.err) ELSE AssertSingleValueResult(list.out)

\* lines 1356-1364
findVPNConnection(list) ==
    IF list.err # "nil" THEN Result(Nil, list.err) ELSE AssertSingleValueResult(list.out)

\* lines 1459-1467
findVPNGateway(list) ==
    IF list.err # "nil" THEN Result(Nil, list.err) ELSE AssertSingleValueResult(list.out)

\* lines 1552-1560
findCustomerGateway(list) ==
    IF list.err # "nil" THEN Result(Nil, list.err) ELSE AssertSingleValueResult(list.out)

\* lines 156-175
findNetworkACLByIDV2(list, id) ==
    LET r == findNetworkACLV2(list) IN
    IF r.err # "nil" THEN r
    ELSE IF r.out.Id # id THEN Result(Nil, "NotFoundError")
    ELSE r

\* lines 359-378
findNetworkInterfaceByIDV2(list, id) ==
    LET r == findNetworkInterfaceV2(list) IN
    IF r.err # "nil" THEN r
    ELSE IF r.out.Id # id THEN Result(Nil, "NotFoundError")
    ELSE r

\* lines 790-816
findVPCEndpointServiceConfigurationByIDV2(list, id) ==
    LET r == findVPCEndpointServiceConfigurationV2(list) IN
    IF r.err # "nil" THEN r
    ELSE IF r.out.State = "Deleted" \/ r.out.State = "Failed" THEN Result(Nil, "NotFoundError")
    ELSE IF r.out.Id # id THEN Result(Nil, "NotFoundError")
    ELSE r

\* lines 1094-1120
findClientVPNEndpointByID(list, id) ==
    LET r == findClientVPNEndpoint(list) IN
    IF r.err # "nil" THEN r
    ELSE IF r.out.State = "deleted" THEN Result(Nil, "NotFoundError")
    ELSE IF r.out.Id # id THEN Result(Nil, "NotFoundError")
    ELSE r

\* lines 1328-1354
findCarrierGatewayByID(list, id) ==
    LET r == findCarrierGateway(list) IN
    IF r.err # "nil" THEN r
    ELSE IF r.out.State = "deleted" THEN Result(Nil, "NotFoundError")
    ELSE IF r.out.Id # id THEN Result(Nil, "NotFoundError")
    ELSE r

\* a VPN connection finder without the eventual consistency check
findVPNConnectionByID_unchecked(list, id) ==
    LET r == findVPNConnection(list) IN
    IF r.err # "nil" THEN r
    ELSE IF r.out.State = "deleted" THEN Result(Nil, "NotFoundError")
    ELSE r

\* lines 1383-1409
findVPNConnectionByID(list, id) ==
    LET r == findVPNConnection(list) IN
    IF r.err # "nil" THEN r
    ELSE IF r.out.State = "deleted" THEN Result(Nil, "NotFoundError")
    ELSE IF r.out.Id # id THEN Result(Nil, "NotFoundError")
    ELSE r

\* lines 1490-1516
findVPNGatewayByID(list, id) ==
    LET r == findVPNGateway(list) IN
    IF r.err # "nil" THEN r
    ELSE IF r.out.State = "deleted" THEN Result(Nil, "NotFoundError")
    ELSE IF r.out.Id # id THEN Result(Nil, "NotFoundError")
    ELSE r

\* lines 1583-1609
findCustomerGatewayByID(list, id) ==
    LET r == findCustomerGateway(list) IN
    IF r.err # "nil" THEN r
    ELSE IF r.out.State = "deleted" THEN Result(Nil, "NotFoundError")
    ELSE IF r.out.Id # id THEN Result(Nil, "NotFoundError")
    ELSE r

\* the canonical form net.ParseCIDR gives a CIDR block; "" when it does not parse
ParseCIDR(cidr) ==
    CASE cidr \in {"10.0.0.0/16", "10.1.0.0/16", "10.9.0.0/16", "2001:db8::/32"} -> cidr
      [] cidr = "2001:0db8::/32" -> "2001:db8::/32"
      [] OTHER -> ""

\* types.CIDRBlocksEqual
CIDRBlocksEqual(cidr1, cidr2) ==
    /\ ParseCIDR(cidr1) # "" /\ ParseCIDR(cidr2) # ""
    /\ ParseCIDR(cidr1) = ParseCIDR(cidr2)

\* for _, x := range s { if ... { return &x, nil } }; return nil, notFound
\* with matching the elements of s, in s's order, that pass the loop's test
FirstMatch(matching, notFound) ==
    IF matching = <<>> THEN Result(Nil, notFound) ELSE Result(matching[1], "nil")

\* an IPv4 route finder that returns the last route to the destination
findRouteByIPv4Destination_last(routeTable, destinationCidr) ==
    IF routeTable.err # "nil" THEN routeTable
    ELSE LET m == SelectSeq(routeTable.out.Routes,
                     LAMBDA route : CIDRBlocksEqual(route.DestinationCidrBlock,
                                                    destinationCidr))
         IN  IF m = <<>> THEN Result(Nil, "NotFoundError") ELSE Result(m[Len(m)], "nil")

\* lines 627-645
findRouteByIPv4Destination(routeTable, destinationCidr) ==
    IF routeTable.err # "nil" THEN routeTable
    ELSE FirstMatch(SelectSeq(routeTable.out.Routes,
                        LAMBDA route : CIDRBlocksEqual(route.DestinationCidrBlock,
                                                       destinationCidr)),
                    "NotFoundError")

\* lines 647-665
findRouteByIPv6Destination(routeTable, destinationIpv6Cidr) ==
    IF routeTable.err # "nil" THEN routeTable
    ELSE FirstMatch(SelectSeq(routeTable.out.Routes,
                    LAMBDA route : CIDRBlocksEqual(route.DestinationIpv6CidrBlock,
                                                   destinationIpv6Cidr)),
                    "NotFoundError")

\* lines 667-684
findRouteByPrefixListIDDestination(routeTable, prefixListID) ==
    IF routeTable.err # "nil" THEN routeTable
    ELSE FirstMatch(SelectSeq(routeTable.out.Routes,
                    LAMBDA route : route.DestinationPrefixListId = prefixListID),
                    "NotFoundError")

\* an association finder that does not look at the association's state
findRouteTableAssociationByID_anyState(routeTable, associationID) ==
    IF routeTable.err # "nil" THEN routeTable
    ELSE FirstMatch(SelectSeq(routeTable.out.Associations,
                    LAMBDA association : association.Id = associationID), "NotFoundError")

\* lines 728-756
findRouteTableAssociationByID(routeTable, associationID) ==
    IF routeTable.err # "nil" THEN routeTable
    ELSE LET found == FirstMatch(SelectSeq(routeTable.out.Associations,
                          LAMBDA association : association.Id = associationID),
                          "NotFoundError")
         IN  IF found.err = "nil" /\ found.out.State = "disassociated"
             THEN Result(Nil, "NotFoundError")
             ELSE found

\* lines 686-702
findMainRouteTableAssociationByID(association) ==
    IF association.err # "nil" THEN association
    ELSE IF ~association.out.Main THEN Result(Nil, "NotFoundError")
    ELSE association

\* lines 704-726
findMainRouteTableAssociationByVPCID(routeTable) ==
    IF routeTable.err # "nil" THEN routeTable
    ELSE FirstMatch(SelectSeq(routeTable.out.Associations,
                    LAMBDA association :
                        association.Main /\ association.State # "disassociated"),
                    "NotFoundError")

\* for _, v := range s { if ... { return nil } }; return &retry.NotFoundError{}
\* with matching the elements of s that pass the loop's test
Exists(parent, matching) ==
    IF parent.err # "nil" THEN Result(Nil, parent.err)
    ELSE IF matching # <<>> THEN Result(Nil, "nil")
    ELSE Result(Nil, "NotFoundError")

\* a propagation finder that finds whatever gateway it is asked for
findVPNGatewayRoutePropagationExists_always(routeTable, gatewayID) ==
    Result(Nil, routeTable.err)

\* lines 771-788
findVPNGatewayRoutePropagationExists(routeTable, gatewayID) ==
    Exists(routeTable,
           IF routeTable.err = "nil"
           THEN SelectSeq(routeTable.out.PropagatingVgws, LAMBDA v : v.GatewayId = gatewayID)
           ELSE <<>>)

\* lines 887-904
findVPCEndpointRouteTableAssociationExistsV2(vpcEndpoint, routeTableID) ==
    Exists(vpcEndpoint,
           IF vpcEndpoint.err = "nil"
           THEN SelectSeq(vpcEndpoint.out.RouteTableIds,
                          LAMBDA vpcEndpointRouteTableID :
                              vpcEndpointRouteTableID = routeTableID)
           ELSE <<>>)

\* lines 906-923
findVPCEndpointSecurityGroupAssociationExistsV2(vpcEndpoint, securityGroupID) ==
    Exists(vpcEndpoint,
           IF vpcEndpoint.err = "nil"
           THEN SelectSeq(vpcEndpoint.out.Groups,
                          LAMBDA group : group.GroupId = securityGroupID)
           ELSE <<>>)

\* lines 925-942
findVPCEndpointSubnetAssociationExistsV2(vpcEndpoint, subnetID) ==
    Exists(vpcEndpoint,
           IF vpcEndpoint.err = "nil"
           THEN SelectSeq(vpcEndpoint.out.SubnetIds,
                          LAMBDA vpcEndpointSubnetID : vpcEndpointSubnetID = subnetID)
           ELSE <<>>)

\* the list finder behind each finder
ListFinderOf(name) ==
    CASE name \in {"findVPCsV2", "findVPCV2"} -> "findVPCsV2"
      [] name = "findEBSVolumesV2" -> "findEBSVolumesV2"
      [] name \in {"findTransitGatewayAttachmentsV2", "findTransitGatewayAttachmentV2"}
            -> "findTransitGatewayAttachmentsV2"
      [] name \in {"findVPCEndpointsV2", "findVPCEndpointV2", "findVPCEndpointByIDV2",
                   "findVPCEndpointRouteTableAssociationExistsV2",
                   "findVPCEndpointSecurityGroupAssociationExistsV2",
                   "findVPCEndpointSubnetAssociationExistsV2"} -> "findVPCEndpointsV2"
      [] name \in {"findNetworkACLsV2", "findNetworkACLV2",
                   "findNetworkACLByIDV2"} -> "findNetworkACLsV2"
      [] name \in {"findNetworkInterfacesV2", "findNetworkInterfaceV2",
                   "findNetworkInterfaceByIDV2"} -> "findNetworkInterfacesV2"
      [] name \in {"findVPCEndpointServiceConfigurationsV2", "findVPCEndpointServiceConfigurationV2",
                   "findVPCEndpointServiceConfigurationByIDV2"} -> "findVPCEndpointServiceConfigurationsV2"
      [] name \in {"findClientVPNEndpoints", "findClientVPNEndpoint",
                   "findClientVPNEndpointByID"} -> "findClientVPNEndpoints"
      [] name \in {"findCarrierGateways", "findCarrierGateway",
                   "findCarrierGatewayByID"} -> "findCarrierGateways"
      [] name \in {"findVPNConnections", "findVPNConnection",
                   "findVPNConnectionByID"} -> "findVPNConnections"
      [] name \in {"findVPNGateways", "findVPNGateway",
                   "findVPNGatewayByID"} -> "findVPNGateways"
      [] name \in {"findCustomerGateways", "findCustomerGateway",
                   "findCustomerGatewayByID"} -> "findCustomerGateways"
      [] OTHER -> "findRouteTables"

ListFinders == DOMAIN Paginators \cup DOMAIN Describers

\* what the running finder returns, given what its list finder returned
Finder(call, list) ==
    CASE call.name \in ListFinders -> list
      [] call.name = "findVPCV2" -> findVPCV2(list)
      [] call.name = "findTransitGatewayAttachmentV2" -> findTransitGatewayAttachmentV2(list)
      [] call.name = "findVPCEndpointV2" -> findVPCEndpointV2(list)
      [] call.name = "findVPCEndpointByIDV2" -> findVPCEndpointByIDV2(list, call.id)
      [] call.name = "findNetworkACLV2" -> findNetworkACLV2(list)
      [] call.name = "findNetworkInterfaceV2" -> findNetworkInterfaceV2(list)
      [] call.name = "findVPCEndpointServiceConfigurationV2" -> findVPCEndpointServiceConfigurationV2(list)
      [] call.name = "findClientVPNEndpoint" -> findClientVPNEndpoint(list)
      [] call.name = "findCarrierGateway" -> findCarrierGateway(list)
      [] call.name = "findVPNConnection" -> findVPNConnection(list)
      [] call.name = "findVPNGateway" -> findVPNGateway(list)
      [] call.name = "findCustomerGateway" -> findCustomerGateway(list)
      [] call.name = "findNetworkACLByIDV2" -> findNetworkACLByIDV2(list, call.id)
      [] call.name = "findNetworkInterfaceByIDV2" -> findNetworkInterfaceByIDV2(list, call.id)
      [] call.name = "findVPCEndpointServiceConfigurationByIDV2" -> findVPCEndpointServiceConfigurationByIDV2(list, call.id)
      [] call.name = "findClientVPNEndpointByID" -> findClientVPNEndpointByID(list, call.id)
      [] call.name = "findCarrierGatewayByID" -> findCarrierGatewayByID(list, call.id)
      [] call.name = "findVPNConnectionByID" -> findVPNConnectionByID(list, call.id)
      [] call.name = "findVPNGatewayByID" -> findVPNGatewayByID(list, call.id)
      [] call.name = "findCustomerGatewayByID" -> findCustomerGatewayByID(list, call.id)
      [] call.name \in {"findRouteTable", "findRouteTableByID", "findMainRouteTableByVPCID"}
            -> findRouteTable(list)
      [] call.name = "findRouteByIPv4Destination"
            -> findRouteByIPv4Destination(findRouteTable(list), call.arg)
      [] call.name = "findRouteByIPv6Destination"
            -> findRouteByIPv6Destination(findRouteTable(list), call.arg)
      [] call.name = "findRouteByPrefixListIDDestination"
            -> findRouteByPrefixListIDDestination(findRouteTable(list), call.arg)
      [] call.name = "findRouteTableAssociationByID"
            -> findRouteTableAssociationByID(findRouteTable(list), call.arg)
      [] call.name = "findMainRouteTableAssociationByID"
            -> findMainRouteTableAssociationByID(
                    findRouteTableAssociationByID(findRouteTable(list), call.arg))
      [] call.name = "findMainRouteTableAssociationByVPCID"
            -> findMainRouteTableAssociationByVPCID(findRouteTable(list))
      [] call.name = "findVPNGatewayRoutePropagationExists"
            -> findVPNGatewayRoutePropagationExists(findRouteTable(list), call.arg)
      [] call.name = "findVPCEndpointRouteTableAssociationExistsV2"
            -> findVPCEndpointRouteTableAssociationExistsV2(
                    findVPCEndpointByIDV2(list, call.id), call.arg)
      [] call.name = "findVPCEndpointSecurityGroupAssociationExistsV2"
            -> findVPCEndpointSecurityGroupAssociationExistsV2(
                    findVPCEndpointByIDV2(list, call.id), call.arg)
      [] call.name = "findVPCEndpointSubnetAssociationExistsV2"
            -> findVPCEndpointSubnetAssociationExistsV2(
                    findVPCEndpointByIDV2(list, call.id), call.arg)

-----------------------------------------------------------------------------
(* The resource lifecycle *)

Kinds == {"webacl", "certificate", "upload"}

FilterIdle ==
    /\ fRules = <<>> /\ fConfig = <<>> /\ fOut = <<>> /\ fPc = "off"

FindIdle ==
    /\ rKind = "none" /\ rItems = <<>> /\ fn = NoCall /\ served = <<>> /\ output = <<>>
    /\ fResult = NoResult /\ fndPc = "off"

TagsIdle ==
    /\ defaultTags = <<>> /\ configTags = <<>> /\ tags = <<>> /\ tagsAll = <<>>
    /\ rTags = <<>> /\ oTagsAll = <<>>
    /\ tPc = "off"

Init ==
    /\ kind \in Kinds
    /\ pc = "idle" /\ op = "none" /\ ret = "none"
    /\ dId = "" /\ dIsNew = FALSE /\ dLockToken = 0 /\ dRules = {} /\ dCfg = "none"
    /\ dChange = FALSE
    /\ rExists = FALSE /\ rToken = 0 /\ rRules = <<>> /\ rCfg = "none"
    /\ nextToken = 1
    /\ lockToken = 0 /\ input = NoInput /\ attempts = 0 /\ calls = <<>>
    /\ FilterIdle /\ TagsIdle /\ ImportIdle /\ FindIdle

Next ==
    \/ resourceWebACLCreate
    \/ resourceWebACLCreate_call
    \/ ReadBegin
    \/ resourceWebACLRead
    \/ resourceWebACLUpdate
    \/ resourceWebACLUpdate_find
    \/ resourceWebACLUpdate_call
    \/ retryResourceWebACLUpdateOptmisticLockFailure
    \/ retryResourceWebACLUpdateOptmisticLockFailure_call
    \/ resourceWebACLDelete
    \/ resourceWebACLDelete_call
    \/ retryResourceWebACLDeleteOptmisticLockFailure
    \/ retryResourceWebACLDeleteOptmisticLockFailure_call
    \/ resourceCertificateCreate
    \/ resourceCertificateRead
    \/ resourceCertificateUpdate
    \/ resourceCertificateDelete
    \/ resourceUploadCreate
    \/ resourceUploadRead
    \/ resourceUploadUpdate
    \/ resourceUploadDelete
    \/ resourceWebACLImport
    \/ resourceWebACLRead_imported
    \/ Return
    \/ ShieldEnable
    \/ ShieldDisable
    \/ Disappears

Spec == Init /\ [][Next]_vars

-----------------------------------------------------------------------------
(* Properties of the resource lifecycle *)

Mutations == {"UpdateWebACL", "DeleteWebACL"}

\* the places in the call log of the mutations rejected with a lock conflict
Conflicts ==
    {i \in 1..Len(calls) :
        calls[i].api \in Mutations /\ calls[i].ans = "WAFOptimisticLockException"}

\* the place of the first lock conflict (0: none)
FirstConflict ==
    IF Conflicts = {} THEN 0 ELSE CHOOSE i \in Conflicts : \A j \in Conflicts : i <= j

InCallback(o) == kind = "webacl" /\ op = o /\ pc # "idle"

\* C1: in a Web ACL Update, after the first UpdateWebACL is rejected with a lock
\* conflict the next call is GetWebACL, and when it returns a lock token other than
\* the one taken from state, UpdateWebACL is issued again with the rules and
\* configuration of the rejected call and the refreshed lock token.
C1_UpdateRetriesWithRefreshedToken ==
    InCallback("update") /\ FirstConflict # 0 =>
        LET i == FirstConflict IN
        /\ calls[i].tok = lockToken
        /\ Len(calls) = i => pc = "upd_refresh"
        /\ Len(calls) > i =>
            /\ calls[i + 1].api = "GetWebACL"
            /\ (calls[i + 1].ans = "OK" /\ calls[i + 1].tok # lockToken) =>
                /\ Len(calls) = i + 1 =>
                    /\ pc = "upd_retry"
                    /\ input = [LockToken |-> calls[i + 1].tok,
                                Rules |-> calls[i].rules, Cfg |-> calls[i].cfg]
                /\ Len(calls) > i + 1 =>
                    calls[i + 2] = [calls[i] EXCEPT !.at = "upd_retry",
                                                    !.tok = calls[i + 1].tok,
                                                    !.ans = calls[i + 2].ans]

\* C1's case: the retried UpdateWebACL was issued with a refreshed token
C1_Witness ==
    /\ InCallback("update") /\ FirstConflict # 0
    /\ Len(calls) > FirstConflict + 1
    /\ calls[FirstConflict + 2].api = "UpdateWebACL"
    /\ calls[FirstConflict + 2].tok # lockToken

\* C2: within one Update or Delete of a Web ACL at most two mutations are rejected
\* with a lock conflict (the first one and its one retry), the token is refreshed at
\* most once, and after the second conflict the callback has ended with the
\* 'changed since last refresh' error and has made no further call.
C2_SingleRetry ==
    (InCallback("update") \/ InCallback("delete")) =>
        /\ Cardinality(Conflicts) <= 2
        /\ FirstConflict # 0 =>
            Cardinality({j \in FirstConflict + 1..Len(calls) :
                            calls[j].api = "GetWebACL"}) <= 1
        /\ Cardinality(Conflicts) = 2 =>
            /\ pc = "done"
            /\ ret = "changed since last refresh"
            /\ calls[Len(calls)].ans = "WAFOptimisticLockException"
        /\ (pc = "done" /\ ret = "changed since last refresh") =>
            Cardinality(Conflicts) = 2

\* C2's case: a retried mutation was rejected with a second lock conflict
C2_Witness ==
    /\ InCallback("delete") /\ pc = "done"
    /\ Cardinality(Conflicts) = 2
    /\ ret = "changed since last refresh"

\* C3: an Update or Delete of a Web ACL in which some remote call failed with an
\* internal error (neither not-found nor a lock conflict) returns an error.
C3_OtherErrorsSurfaced ==
    (kind = "webacl" /\ pc = "done" /\ op \in {"update", "delete"}
        /\ \E i \in 1..Len(calls) : calls[i].ans = "WAFInternalErrorException")
    => ret # "nil"

\* C4: a Delete of a Web ACL in which some remote call answered that the Web ACL
\* does not exist returns success.
C4_DeleteNotFoundIsSuccess ==
    (kind = "webacl" /\ pc = "done" /\ op = "delete"
        /\ \E i \in 1..Len(calls) : calls[i].ans = "WAFNonexistentItemException")
    => ret = "nil"

NotFoundCode == IF kind = "certificate" THEN "ResourceNotFoundException"
                ELSE "NotFoundException"

\* a Delete of a certificate or an upload has just returned
SimpleDeleteDone == kind \in {"certificate", "upload"} /\ op = "delete" /\ pc = "done"

\* C5: Delete of a Transfer certificate or Device Farm upload makes one remote call,
\* returns success when it succeeds or reports not-found and an error otherwise ...
C5_DeleteReturn ==
    SimpleDeleteDone =>
        /\ Len(calls) = 1
        /\ calls[1].ans \in {"OK", NotFoundCode} => ret = "nil" /\ ~rExists
        /\ calls[1].ans \notin {"OK", NotFoundCode} => ret # "nil"

\* ... and a Delete of an object that is already gone changes nothing remotely.
C5_SecondDeleteNoEffect ==
    (~rExists /\ SimpleDeleteDone') => UNCHANGED <<rExists, rToken, rRules, rCfg>>

\* C5: both parts
C5_DeleteIdempotent == [](C5_DeleteReturn) /\ [][C5_SecondDeleteNoEffect]_vars

\* C5's case: a Delete of an object already deleted returned success
C5_Witness ==
    /\ SimpleDeleteDone /\ kind = "upload"
    /\ calls[1].ans = "NotFoundException" /\ ret = "nil"

IdOf(k) == CASE k = "webacl" -> ACLID [] k = "certificate" -> CERTID [] OTHER -> UPLOADARN

NotFoundAnswers ==
    {"WAFNonexistentItemException", "ResourceNotFoundException", "NotFoundException"}

\* a Read (also the one that ends a Create or an Update) has just returned
ReadDone ==
    /\ pc = "done" /\ calls # <<>>
    /\ calls[Len(calls)].at = "read"

C7_DeleteSuccessMeansGone ==
    (pc = "done" /\ op = "delete" /\ ret = "nil") => ~rExists

\* C8: every UpdateWebACL the remote service accepts carries every Shield
\* mitigation rule the remote Web ACL holds at that moment.
C8_UpdateKeepsShieldRule ==
    [][(/\ kind = "webacl" /\ op = "update"
        /\ Len(calls') = Len(calls) + 1
        /\ calls'[Len(calls')].api = "UpdateWebACL"
        /\ calls'[Len(calls')].ans = "OK")
       => Range(findShieldRule(rRules)) \subseteq Range(calls'[Len(calls')].rules)]_vars

-----------------------------------------------------------------------------
(* filterWebACLRules on its own *)

FilterInit ==
    /\ kind = "none"
    /\ pc = "idle" /\ op = "none" /\ ret = "none"
    /\ dId = "" /\ dIsNew = FALSE /\ dLockToken = 0 /\ dRules = {} /\ dCfg = "none"
    /\ dChange = FALSE
    /\ rExists = FALSE /\ rToken = 0 /\ rRules = <<>> /\ rCfg = "none"
    /\ nextToken = 1
    /\ lockToken = 0 /\ input = NoInput /\ attempts = 0 /\ calls = <<>>
    /\ fRules \in SeqsUpTo(Range(RuleNames), MaxRules)
    /\ fConfig \in {expandWebACLRules(c) : c \in SUBSET Range(RuleNames)}
    /\ fOut = <<>> /\ fPc = "ready"
    /\ TagsIdle /\ ImportIdle /\ FindIdle

\* line 262: Read filters the remote rules against the configured ones
FilterApply ==
    /\ fPc = "ready"
    /\ fOut' = filterWebACLRules(fRules, fConfig)
    /\ fPc' = "done"
    /\ UNCHANGED <<fRules, fConfig, lifeVars, tagVars, importVars, findVars>>

FilterNext == FilterApply

SpecFilter == FilterInit /\ [][FilterNext]_vars

\* C9: filterWebACLRules returns the remote rules, in their order, without the
\* rules whose name matches the Shield pattern and is not a configured rule's name.
C9_FilterRemovesShieldRules ==
    fPc = "done" =>
        fOut = SelectSeq(fRules,
                   LAMBDA r : ~(MatchString(r) /\ r \notin Range(fConfig)))

-----------------------------------------------------------------------------
(* Tags: provider-level defaults and resource-level tags *)

TagKeys == {"key1", "key2"}
TagValues == {"value1", "value2", ""}
\* a resource tag the configuration sets to null
Null == "<null>"

\* the tag maps over a set of values: each key absent or mapped to one value
TagMaps(values) == UNION {[ks -> values] : ks \in SUBSET TagKeys}

\* defaults that take the provider's value wherever both maps hold the key
Merge_defaultsWin(base, over) ==
    [k \in DOMAIN base \cup DOMAIN over |-> IF k \in DOMAIN base THEN base[k] ELSE over[k]]

\* KeyValueTags.Merge: the receiver's tags, overridden per key by the other map's
Merge(base, over) ==
    [k \in DOMAIN base \cup DOMAIN over |-> IF k \in DOMAIN over THEN over[k] ELSE base[k]]

\* resource tags that lose the empty-valued tags along with the null-valued ones
ResourceTags_dropEmpty(config) ==
    [k \in {x \in DOMAIN config : config[x] # Null /\ config[x] # ""} |-> config[k]]

\* the resource's tags: the configured ones whose value is not null
ResourceTags(config) ==
    [k \in {x \in DOMAIN config : config[x] # Null} |-> config[k]]

TagsInit ==
    /\ kind = "none"
    /\ pc = "idle" /\ op = "none" /\ ret = "none"
    /\ dId = "" /\ dIsNew = FALSE /\ dLockToken = 0 /\ dRules = {} /\ dCfg = "none"
    /\ dChange = FALSE
    /\ rExists = FALSE /\ rToken = 0 /\ rRules = <<>> /\ rCfg = "none"
    /\ nextToken = 1
    /\ lockToken = 0 /\ input = NoInput /\ attempts = 0 /\ calls = <<>>
    /\ FilterIdle /\ ImportIdle /\ FindIdle
    /\ defaultTags = <<>> /\ configTags = <<>> /\ tags = <<>> /\ tagsAll = <<>>
    /\ rTags = <<>> /\ oTagsAll = <<>>
    /\ tPc = "new"

\* an update that tags the new and the changed keys and never untags
UpdateTags_neverUntags(remote, old, new) ==
    [k \in DOMAIN remote \cup DOMAIN new |-> IF k \in DOMAIN new THEN new[k] ELSE remote[k]]

\* updateTags: untag the keys of the old tags_all that the new one lacks, tag the
\* keys the new one adds or changes
UpdateTags(remote, old, new) ==
    LET removed == {k \in DOMAIN old : k \notin DOMAIN new}
        updated == {k \in DOMAIN new : k \notin DOMAIN old \/ old[k] # new[k]}
    IN  [k \in (DOMAIN remote \ removed) \cup updated |->
            IF k \in updated THEN new[k] ELSE remote[k]]

\* the tags attribute after a read: the remote tags without the ones the provider's
\* defaults account for, a tag the configuration sets itself being always kept
StateTags(remote, defaults, config) ==
    [k \in {x \in DOMAIN remote :
                \/ ~(x \in DOMAIN defaults /\ defaults[x] = remote[x])
                \/ (x \in DOMAIN config /\ config[x] = remote[x])} |-> remote[k]]

\* one apply: the configuration and the provider's default_tags are what the test
\* step gives; the planned tags_all is the defaults overridden by the resource's tags,
\* the update brings the remote tags from the old tags_all to the planned one, and
\* the read that ends the apply records tags and tags_all from the remote tags
TagsApply ==
    /\ tPc \in {"new", "applied"}
    /\ \E defaults \in TagMaps(TagValues), config \in TagMaps(TagValues \cup {Null}) :
        /\ defaultTags' = defaults
        /\ configTags' = config
        /\ oTagsAll' = tagsAll
        /\ rTags' = UpdateTags(rTags, tagsAll, Merge(defaults, ResourceTags(config)))
        /\ tags' = StateTags(rTags', defaults, config)
        /\ tagsAll' = rTags'
    /\ tPc' = "applied"
    /\ UNCHANGED <<lifeVars, filterVars, importVars, findVars>>

TagsNext == TagsApply

SpecTags == TagsInit /\ [][TagsNext]_vars

\* C10: after every apply tags_all holds the keys of the defaults and of the
\* resource's tags, a key of the resource's tags with the resource's value and a key
\* only of the defaults with the default's value; without defaults it equals tags.
C10_TagsAllIsDefaultsOverridden ==
    tPc = "applied" =>
        /\ DOMAIN tagsAll = DOMAIN defaultTags \cup DOMAIN tags
        /\ \A k \in DOMAIN tags : tagsAll[k] = tags[k]
        /\ \A k \in DOMAIN ResourceTags(configTags) :
                k \in DOMAIN tagsAll /\ tagsAll[k] = configTags[k]
        /\ \A k \in DOMAIN defaultTags \ DOMAIN tags : tagsAll[k] = defaultTags[k]
        /\ DOMAIN defaultTags = {} => tagsAll = tags

\* C10's case: a key of both maps with different values, and a key only of the defaults
C10_Witness ==
    /\ tPc = "applied"
    /\ "key1" \in DOMAIN defaultTags /\ "key1" \in DOMAIN tags
    /\ defaultTags["key1"] # tags["key1"]
    /\ tagsAll["key1"] = tags["key1"]
    /\ "key2" \in DOMAIN defaultTags /\ "key2" \notin DOMAIN tags
    /\ tagsAll["key2"] = defaultTags["key2"]

\* C11: a resource tag set to null is not in tags and leaves tags_all with the
\* provider default of its key (or without the key when there is no default); a
\* resource tag set to the empty string is in tags and in tags_all with the empty
\* string, whatever the provider default of its key.
C11_NullDroppedEmptyKept ==
    tPc = "applied" =>
        \A k \in DOMAIN configTags :
            /\ configTags[k] = Null =>
                /\ k \notin DOMAIN tags
                /\ k \in DOMAIN defaultTags =>
                        k \in DOMAIN tagsAll /\ tagsAll[k] = defaultTags[k]
                /\ k \notin DOMAIN defaultTags => k \notin DOMAIN tagsAll
            /\ configTags[k] = "" =>
                /\ k \in DOMAIN tags /\ tags[k] = ""
                /\ k \in DOMAIN tagsAll /\ tagsAll[k] = ""

\* C11's case: key1 is null over a default, key2 is empty over a default
C11_Witness ==
    /\ tPc = "applied"
    /\ DOMAIN configTags = TagKeys /\ DOMAIN defaultTags = TagKeys
    /\ configTags["key1"] = Null /\ defaultTags["key1"] = "value1"
    /\ configTags["key2"] = "" /\ defaultTags["key2"] = "value2"
    /\ tagsAll = [k \in TagKeys |-> IF k = "key1" THEN "value1" ELSE ""]
    /\ tags = [k \in {"key2"} |-> ""]

\* C12: after every apply of a sequence the tags in state are exactly the tags of
\* the configuration just applied, whatever the applies before it left behind; an
\* empty tag map leaves no tag.
C12_TagsFollowConfiguration ==
    tPc = "applied" =>
        /\ tags = ResourceTags(configTags)
        /\ DOMAIN configTags = {} => tags = <<>>

\* C12's case: without defaults, an apply that drops key1 and changes key2's value
C12_Witness ==
    /\ tPc = "applied"
    /\ DOMAIN defaultTags = {}
    /\ DOMAIN oTagsAll = TagKeys
    /\ DOMAIN configTags = {"key2"} /\ configTags["key2"] # oTagsAll["key2"]
    /\ DOMAIN tags = {"key2"} /\ tags["key2"] = configTags["key2"]

-----------------------------------------------------------------------------
(* Import of an applied Web ACL *)

\* C13: an import of the applied Web ACL by ID/NAME/SCOPE followed by Read, with
\* the remote Web ACL as the apply's Read saw it, records the id, name, scope, lock
\* token, other attributes and rule set that the apply recorded.
C13_ImportRoundTrip ==
    (/\ kind = "webacl" /\ iPc = "done"
     /\ importId = <<ACLID, Sep, WebACLName, Sep, WebACLScope>>
     /\ rExists /\ dLockToken = rToken)
    => /\ iData.Id = dId
       /\ iData.Name = WebACLName /\ iData.Scope = WebACLScope
       /\ iData.LockToken = dLockToken
       /\ iData.Cfg = dCfg
       /\ iData.Rules = dRules

-----------------------------------------------------------------------------
(* Updates that change nothing but tags *)

\* the step belongs to an Update callback of the resource kind k
UpdateStep(k) == kind = k /\ op' = "update" /\ pc' # pc

\* C23: a step of a Web ACL Update in which no attribute other than tags and
\* tags_all changed leaves the remote rule set, default action and lock token as
\* they are, and the only call of such an Update is the GetWebACL of its final
\* Read: no GetWebACL for the Shield rule and no UpdateWebACL; a Transfer
\* certificate Update calls UpdateCertificate only when the description changed.
C23_TagsOnlyUpdate ==
    [][/\ (UpdateStep("webacl") /\ ~dChange') =>
            /\ UNCHANGED <<rExists, rRules, rCfg, rToken>>
            /\ \A i \in DOMAIN calls' :
                    calls'[i].api = "GetWebACL" /\ calls'[i].at = "read"
            /\ Len(calls') = IF pc' = "done" THEN 1 ELSE 0
       /\ UpdateStep("certificate") =>
            /\ (\E i \in DOMAIN calls' : calls'[i].api = "UpdateCertificate") => dChange'
            /\ ~dChange' => UNCHANGED <<rExists, rCfg>>
      ]_vars

\* C23's case: an Update that changed nothing but tags returned after its Read, and
\* the remote Web ACL has a rule of Shield's that the configuration does not have
C23_Witness ==
    /\ kind = "webacl" /\ op = "update" /\ ~dChange /\ pc = "done" /\ ret = "nil"
    /\ Len(calls) = 1
    /\ ShieldA \in Range(rRules) /\ ShieldA \notin dRules

-----------------------------------------------------------------------------
(* Updates that report success *)

\* the service accepted an UpdateWebACL of the running callback
UpdateApplied ==
    \E i \in DOMAIN calls : calls[i].api = "UpdateWebACL" /\ calls[i].ans = "OK"

\* C24: a Web ACL Update in which an attribute other than the tags changed returns
\* success only if the service accepted an UpdateWebACL call of that Update, also
\* after a first call that was rejected with an optimistic lock conflict.
C24_UpdateSuccessMeansApplied ==
    (kind = "webacl" /\ op = "update" /\ dChange /\ pc = "done" /\ ret = "nil")
        => UpdateApplied

-----------------------------------------------------------------------------
(* Web ACL: the importer on the identifiers a user may type *)

MaxPieces == 7

\* the identifiers given to "terraform import": up to MaxPieces pieces, each the
\* separator or a string without one
TypedIds == SeqsUpTo({Sep, ACLID, WebACLName, WebACLScope}, MaxPieces)

ImportInit ==
    /\ kind = "import"
    /\ pc = "idle" /\ op = "none" /\ ret = "none"
    /\ dId = "" /\ dIsNew = FALSE /\ dLockToken = 0 /\ dRules = {} /\ dCfg = "none"
    /\ dChange = FALSE
    /\ rExists = FALSE /\ rToken = 0 /\ rRules = <<>> /\ rCfg = "none"
    /\ nextToken = 1
    /\ lockToken = 0 /\ input = NoInput /\ attempts = 0 /\ calls = <<>>
    /\ FilterIdle /\ TagsIdle /\ FindIdle
    /\ importId \in TypedIds /\ iData = NoData /\ iPc = "off"

\* lines 46-60: the engine runs the importer on the identifier typed
ImportState ==
    /\ kind = "import" /\ pc = "idle"
    /\ LET r == StateContext(importId) IN
        /\ op' = "import" /\ pc' = "done"
        /\ ret' = r.err
        /\ iData' = r.data
        /\ iPc' = IF r.err = "nil" THEN "read" ELSE "failed"
    /\ UNCHANGED <<kind, dId, dIsNew, dLockToken, dRules, dCfg, dChange, rExists, rToken,
                   rRules, rCfg, nextToken, lockToken, input, attempts, calls, importId>>
    /\ SideUnchanged

SpecImport == ImportInit /\ [][ImportState]_vars

\* the strings of s put one after another
RECURSIVE Join(_)
Join(s) == IF s = <<>> THEN "" ELSE Head(s) \o Join(Tail(s))

\* the positions of the separators in the identifier typed
SepAt == {i \in DOMAIN importId : importId[i] = Sep}

\* the identifier typed is three non-empty strings without a separator, put
\* together with two separators
ThreeParts ==
    \E i, j \in SepAt :
        /\ SepAt = {i, j}
        /\ 1 < i /\ i + 1 < j /\ j < Len(importId)

\* C22: the importer accepts an identifier exactly when it is three non-empty parts
\* separated by "/"; it then returns the resource with the first part as its ID, the
\* second as its name and the third as its scope; for every other identifier it
\* returns the error "expected ID/NAME/SCOPE" and no resource.
C22_ImporterAcceptsThreeParts ==
    (kind = "import" /\ op = "import" /\ pc = "done") =>
        /\ ret = "nil" <=> ThreeParts
        /\ ThreeParts =>
            \E i, j \in SepAt :
                /\ i < j
                /\ iData.Id = Join(SubSeq(importId, 1, i - 1))
                /\ iData.Name = Join(SubSeq(importId, i + 1, j - 1))
                /\ iData.Scope = Join(SubSeq(importId, j + 1, Len(importId)))
        /\ ~ThreeParts =>
            /\ ret = "Unexpected format of ID, expected ID/NAME/SCOPE"
            /\ iData = NoData /\ iPc = "failed"

\* C22's case: an identifier of four non-empty parts was refused
C22_Witness ==
    /\ kind = "import" /\ op = "import" /\ pc = "done"
    /\ importId = <<ACLID, Sep, WebACLName, Sep, WebACLScope, Sep, WebACLName>>
    /\ ret # "nil" /\ iData = NoData

-----------------------------------------------------------------------------
(* EC2 finders: one finder call after another against a remote that holds still *)

FinderCall(name, in, id, arg) == [name |-> name, input |-> in, id |-> id, arg |-> arg]

\* the objects looked up by identifier: the prefix of their identifiers, their
\* states and their by-ID finder
ByIDKinds ==
    [networkacl |-> [prefix |-> "acl-", states |-> {""},
                     finder |-> "findNetworkACLByIDV2"],
     networkinterface |-> [prefix |-> "eni-", states |-> NetworkInterfaceStatuses,
                           finder |-> "findNetworkInterfaceByIDV2"],
     serviceconfiguration |-> [prefix |-> "vpce-svc-", states |-> ServiceStates,
                               finder |-> "findVPCEndpointServiceConfigurationByIDV2"],
     clientvpn |-> [prefix |-> "cvpn-endpoint-", states |-> GatewayStates,
                    finder |-> "findClientVPNEndpointByID"],
     carriergateway |-> [prefix |-> "cagw-", states |-> GatewayStates,
                         finder |-> "findCarrierGatewayByID"],
     vpnconnection |-> [prefix |-> "vpn-", states |-> GatewayStates,
                        finder |-> "findVPNConnectionByID"],
     vpngateway |-> [prefix |-> "vgw-", states |-> GatewayStates,
                     finder |-> "findVPNGatewayByID"],
     customergateway |-> [prefix |-> "cgw-", states |-> GatewayStates,
                          finder |-> "findCustomerGatewayByID"]]

RemoteKinds ==
    {"vpc", "volume", "attachment", "routetable", "endpoint"} \cup DOMAIN ByIDKinds

\* what the remote may hold
Worlds(k) ==
    CASE k = "vpc" -> DistinctSeqs(PlainItems("vpc-"), MaxItems)
      [] k = "volume" -> DistinctSeqs(PlainItems("vol-"), MaxItems)
      [] k = "attachment" -> DistinctSeqs(PlainItems("tgw-attach-"), MaxItems)
      [] k = "routetable" -> RouteTableWorlds
      [] k = "endpoint" -> EndpointWorlds
      [] OTHER -> ByIDWorlds(ByIDKinds[k].prefix, ByIDKinds[k].states)

\* the inputs a list finder or a single-item finder is given: everything, one id,
\* two ids
PlainInputs(prefix) ==
    {Input(ids, "", "") : ids \in {{}, {prefix \o "1"}, {prefix \o "1", prefix \o "2"}}}

\* the destinations, associations and gateways the callers ask for
AskedDestinations4 == {"10.0.0.0/16", "10.9.0.0/16"}
AskedDestinations6 == {"2001:db8::/32", "2001:0db8::/32"}
AskedPrefixLists == {"pl-1", "pl-2"}
AskedAssociations == {"rtbassoc-1", "rtbassoc-2", "rtbassoc-9"}

\* the finder calls the resources make
FinderCalls(k) ==
    CASE k = "vpc" ->
            {FinderCall(f, in, "", "") :
                f \in {"findVPCsV2", "findVPCV2"}, in \in PlainInputs("vpc-")}
      [] k = "volume" ->
            {FinderCall("findEBSVolumesV2", in, "", "") : in \in PlainInputs("vol-")}
      [] k = "attachment" ->
            {FinderCall(f, in, "", "") :
                f \in {"findTransitGatewayAttachmentsV2", "findTransitGatewayAttachmentV2"},
                in \in PlainInputs("tgw-attach-")}
      [] k = "routetable" ->
            {FinderCall(f, in, "", "") :
                f \in {"findRouteTables", "findRouteTable"},
                in \in PlainInputs("rtb-") \cup {Input({}, "rtbassoc-1", ""),
                                                 Input({}, "", "vpc-1")}}
            \cup {FinderCall("findRouteTableByID", Input({id}, "", ""), id, "") :
                    id \in {"rtb-1", "rtb-2"}}
            \cup {FinderCall("findRouteByIPv4Destination", Input({"rtb-1"}, "", ""),
                             "rtb-1", d) : d \in AskedDestinations4}
            \cup {FinderCall("findRouteByIPv6Destination", Input({"rtb-1"}, "", ""),
                             "rtb-1", d) : d \in AskedDestinations6}
            \cup {FinderCall("findRouteByPrefixListIDDestination", Input({"rtb-1"}, "", ""),
                             "rtb-1", d) : d \in AskedPrefixLists}
            \cup {FinderCall(f, Input({}, a, ""), "", a) :
                    f \in {"findRouteTableAssociationByID",
                           "findMainRouteTableAssociationByID"},
                    a \in AskedAssociations}
            \cup {FinderCall(f, Input({}, "", "vpc-1"), "vpc-1", "") :
                    f \in {"findMainRouteTableAssociationByVPCID",
                           "findMainRouteTableByVPCID"}}
            \cup {FinderCall("findVPNGatewayRoutePropagationExists",
                             Input({"rtb-1"}, "", ""), "rtb-1", g) :
                    g \in {"vgw-1", "vgw-3"}}
      [] k = "endpoint" ->
            {FinderCall(f, in, "", "") :
                f \in {"findVPCEndpointsV2", "findVPCEndpointV2"},
                in \in PlainInputs("vpce-")}
            \cup {FinderCall("findVPCEndpointByIDV2", Input({"vpce-1"}, "", ""),
                             "vpce-1", "")}
            \cup {FinderCall("findVPCEndpointRouteTableAssociationExistsV2",
                             Input({"vpce-1"}, "", ""), "vpce-1", x) :
                    x \in {"rtb-1", "rtb-3"}}
            \cup {FinderCall("findVPCEndpointSecurityGroupAssociationExistsV2",
                             Input({"vpce-1"}, "", ""), "vpce-1", x) :
                    x \in {"sg-1", "sg-3"}}
            \cup {FinderCall("findVPCEndpointSubnetAssociationExistsV2",
                             Input({"vpce-1"}, "", ""), "vpce-1", x) :
                    x \in {"subnet-1", "subnet-3"}}
      [] OTHER ->
            {FinderCall(ByIDKinds[k].finder, Input({ByIDKinds[k].prefix \o "1"}, "", ""),
                        ByIDKinds[k].prefix \o "1", "")}
            \cup {FinderCall(ListFinderOf(ByIDKinds[k].finder), Input({}, "", ""), "", "")}

FindInit ==
    /\ kind = "none"
    /\ pc = "idle" /\ op = "none" /\ ret = "none"
    /\ dId = "" /\ dIsNew = FALSE /\ dLockToken = 0 /\ dRules = {} /\ dCfg = "none"
    /\ dChange = FALSE
    /\ rExists = FALSE /\ rToken = 0 /\ rRules = <<>> /\ rCfg = "none"
    /\ nextToken = 1
    /\ lockToken = 0 /\ input = NoInput /\ attempts = 0 /\ calls = <<>>
    /\ FilterIdle /\ TagsIdle /\ ImportIdle
    /\ rKind \in RemoteKinds
    /\ rItems \in Worlds(rKind)
    /\ fn = NoCall /\ served = <<>> /\ output = <<>> /\ fResult = NoResult
    /\ fndPc = "idle"

FindUnchanged == UNCHANGED <<lifeVars, filterVars, tagVars, importVars>>

\* a resource calls a finder
FindBegin ==
    /\ fndPc = "idle"
    /\ fn' \in FinderCalls(rKind)
    /\ served' = <<>> /\ output' = <<>> /\ fResult' = NoResult
    /\ fndPc' = "paging"
    /\ UNCHANGED <<rKind, rItems>> /\ FindUnchanged

\* a list finder that hands out what it had collected when a page failed
listFailure_partial(collected, err) == Result(collected, err)

\* return nil, err
listFailure(collected, err) == Result(<<>>, err)

\* one turn of "for pages.HasMorePages()": NextPage, the not-found code turned into
\* a NotFoundError, any other error returned as it is, the page appended to output;
\* after the last turn the finders on top of the list finder run to their return
NextPage(listFinder) ==
    /\ fndPc = "paging" /\ ListFinderOf(fn.name) = listFinder
    /\ LET pages == Paginate(SelectSeq(rItems, LAMBDA item : Selected(fn.input, item)))
           n == Len(served) + 1
           answers == (IF UnknownIds(fn.input) = {} THEN {"page"} ELSE {})
                        \cup {NotFoundCodes[listFinder], "InternalError"}
       IN  \E ans \in answers :
            IF ans = "page"
            THEN /\ served' = Append(served, Page(pages[n]))
                 /\ output' = output \o pages[n]
                 /\ IF n < Len(pages)
                    THEN fndPc' = "paging" /\ UNCHANGED fResult
                    ELSE /\ fndPc' = "done"
                         /\ fResult' = Finder(fn, Result(output', "nil"))
            ELSE /\ served' = Append(served, Failed(ans))
                 /\ fndPc' = "done"
                 /\ fResult' = Finder(fn, listFailure(output,
                                    IF ans = NotFoundCodes[listFinder]
                                    THEN "NotFoundError" ELSE ans))
                 /\ UNCHANGED output
    /\ UNCHANGED <<rKind, rItems, fn>> /\ FindUnchanged

\* lines 87-109
findVPCsV2 == NextPage("findVPCsV2")
\* lines 243-265
findRouteTables == NextPage("findRouteTables")
\* lines 433-454
findEBSVolumesV2 == NextPage("findEBSVolumesV2")
\* lines 1528-1550
findTransitGatewayAttachmentsV2 == NextPage("findTransitGatewayAttachmentsV2")
\* lines 537-558
findVPCEndpointsV2 == NextPage("findVPCEndpointsV2")
\* lines 187-209
findNetworkACLsV2 == NextPage("findNetworkACLsV2")
\* lines 325-347
findNetworkInterfacesV2 == NextPage("findNetworkInterfacesV2")
\* lines 590-611
findVPCEndpointServiceConfigurationsV2 == NextPage("findVPCEndpointServiceConfigurationsV2")
\* lines 1070-1092
findClientVPNEndpoints == NextPage("findClientVPNEndpoints")
\* lines 1304-1326
findCarrierGateways == NextPage("findCarrierGateways")

\* a list finder without a paginator: one Describe call, the not-found code turned
\* into a NotFoundError, any other error returned as it is, the call's objects
\* returned; the finders that test the output return an EmptyResultError for a
\* call that gave neither an error nor an output
Describe(listFinder, outputTested) ==
    /\ fndPc = "paging" /\ ListFinderOf(fn.name) = listFinder
    /\ LET items == SelectSeq(rItems, LAMBDA item : Selected(fn.input, item))
           answers == (IF UnknownIds(fn.input) = {} THEN {"output"} ELSE {})
                        \cup {NotFoundCodes[listFinder], "InternalError"}
                        \cup (IF outputTested THEN {"no output"} ELSE {})
       IN  \E ans \in answers :
            /\ served' = Append(served, IF ans = "output" THEN Page(items)
                                        ELSE Failed(ans))
            /\ output' = IF ans = "output" THEN items ELSE output
            /\ fResult' = Finder(fn,
                    CASE ans = "output" -> Result(items, "nil")
                      [] ans = NotFoundCodes[listFinder] -> Result(<<>>, "NotFoundError")
                      [] ans = "no output" -> Result(<<>>, "EmptyResultError")
                      [] OTHER -> Result(<<>>, ans))
    /\ fndPc' = "done"
    /\ UNCHANGED <<rKind, rItems, fn>> /\ FindUnchanged

\* lines 1366-1381
findVPNConnections == Describe("findVPNConnections", FALSE)
\* lines 1469-1488
findVPNGateways == Describe("findVPNGateways", TRUE)
\* lines 1562-1581
findCustomerGateways == Describe("findCustomerGateways", TRUE)

\* the finder returned to its caller
FindReturn ==
    /\ fndPc = "done"
    /\ fndPc' = "idle"
    /\ fn' = NoCall /\ served' = <<>> /\ output' = <<>> /\ fResult' = NoResult
    /\ UNCHANGED <<rKind, rItems>> /\ FindUnchanged

FindNext ==
    \/ FindBegin
    \/ findVPCsV2
    \/ findRouteTables
    \/ findEBSVolumesV2
    \/ findTransitGatewayAttachmentsV2
    \/ findVPCEndpointsV2
    \/ findNetworkACLsV2
    \/ findNetworkInterfacesV2
    \/ findVPCEndpointServiceConfigurationsV2
    \/ findClientVPNEndpoints
    \/ findCarrierGateways
    \/ findVPNConnections
    \/ findVPNGateways
    \/ findCustomerGateways
    \/ FindReturn

SpecFind == FindInit /\ [][FindNext]_vars

-----------------------------------------------------------------------------
(* Properties of the EC2 finders *)

\* every NextPage of the finished call answered with a page
ListOk == fndPc = "done" /\ \A i \in DOMAIN served : served[i].err = "nil"

\* the objects of the pages served, in the order served
RECURSIVE Concat(_)
Concat(pp) == IF pp = <<>> THEN <<>> ELSE Head(pp).items \o Concat(Tail(pp))

Listed == Concat(served)

FinderDone(names) == fndPc = "done" /\ fn.name \in names

\* C14: a single-item finder returns an item only when every page was served and
\* the pages hold exactly one item, and then it returns that item; with no item it
\* returns a not-found error, with more than one an error, and no item either way.
C14_SingleItemFinder ==
    FinderDone({"findVPCV2", "findRouteTable", "findTransitGatewayAttachmentV2"}) =>
        /\ fResult.err = "nil" <=> (ListOk /\ Len(Listed) = 1)
        /\ fResult.err = "nil" => fResult.out = Listed[1]
        /\ fResult.err # "nil" => fResult.out = Nil
        /\ (ListOk /\ Len(Listed) = 0) => NotFound(fResult.err)
        /\ (ListOk /\ Len(Listed) > 1) => fResult.err = "TooManyResultsError"

\* C14's case: the route table lookup returned two route tables
C14_Witness ==
    /\ FinderDone({"findRouteTable"}) /\ ListOk /\ Len(Listed) = 2
    /\ fResult = Result(Nil, "TooManyResultsError")

\* C15: a list finder returns all pages' items in page order, which are the objects
\* the input selects, when no page fails; a NotFoundError and no item when a page
\* fails with the finder's not-found code; the page's error as it is and no item
\* when a page fails otherwise.
C15_ListFinder ==
    FinderDone({"findVPCsV2", "findRouteTables", "findEBSVolumesV2"}) =>
        /\ ListOk =>
            /\ fResult = Result(Listed, "nil")
            /\ fResult.out = SelectSeq(rItems, LAMBDA item : Selected(fn.input, item))
        /\ \A i \in DOMAIN served :
            /\ served[i].err = NotFoundCodes[fn.name] =>
                    fResult = Result(<<>>, "NotFoundError")
            /\ served[i].err \notin {"nil", NotFoundCodes[fn.name]} =>
                    fResult = Result(<<>>, served[i].err)

\* C15's case: the second page of VPCs fails after a first page with items
C15_Witness ==
    /\ FinderDone({"findVPCsV2"})
    /\ Len(served) = 2 /\ Len(served[1].items) = PageSize
    /\ served[2].err = "InternalError"
    /\ fResult = Result(<<>>, "InternalError")

\* the route table the finished finder looked up, when it found exactly one
TableFound == ListOk /\ Len(Listed) = 1

\* the route's destination is the one the running route finder was asked for
IsAskedRoute(route) ==
    CASE fn.name = "findRouteByIPv4Destination" ->
            CIDRBlocksEqual(route.DestinationCidrBlock, fn.arg)
      [] fn.name = "findRouteByIPv6Destination" ->
            CIDRBlocksEqual(route.DestinationIpv6CidrBlock, fn.arg)
      [] OTHER -> route.DestinationPrefixListId = fn.arg

\* C16: a route finder returns the first route, in the route table's order, whose
\* destination is the asked one, and a NotFoundError exactly when the route table
\* has no such route or is not found.
C16_RouteFinder ==
    FinderDone({"findRouteByIPv4Destination", "findRouteByIPv6Destination",
                "findRouteByPrefixListIDDestination"}) =>
        LET routes == IF TableFound THEN Listed[1].Routes ELSE <<>>
            asked == {i \in DOMAIN routes : IsAskedRoute(routes[i])}
            tableNotFound ==
                \/ \E i \in DOMAIN served : served[i].err = NotFoundCodes["findRouteTables"]
                \/ ListOk /\ Len(Listed) = 0
        IN  /\ fResult.err = "nil" <=> (TableFound /\ asked # {})
            /\ fResult.err = "nil" =>
                    fResult.out = routes[CHOOSE i \in asked : \A j \in asked : i <= j]
            /\ NotFound(fResult.err) <=> (tableNotFound \/ (TableFound /\ asked = {}))

\* C16's case: two routes to the asked IPv4 destination, the first one returned
C16_Witness ==
    /\ FinderDone({"findRouteByIPv4Destination"}) /\ TableFound
    /\ Len(Listed[1].Routes) = 2
    /\ \A i \in 1..2 : Listed[1].Routes[i].DestinationCidrBlock = fn.arg
    /\ Listed[1].Routes[1] # Listed[1].Routes[2]
    /\ fResult = Result(Listed[1].Routes[1], "nil")

\* the associations of the route table the finished finder looked up
FoundAssociations == IF TableFound THEN Listed[1].Associations ELSE <<>>

\* C17: an association finder returns an association of the route table it looked
\* up that is not disassociated, and the main-association finders one that is main;
\* the finder by id returns a not-found error when the association is absent or
\* disassociated, the main finder by id also when it is not main, and the finder by
\* VPC returns the first main association that is not disassociated and a not-found
\* error when there is none.
C17_AssociationFinder ==
    /\ FinderDone({"findRouteTableAssociationByID", "findMainRouteTableAssociationByID",
                   "findMainRouteTableAssociationByVPCID"}) =>
        /\ fResult.err = "nil" =>
            /\ fResult.out \in Range(FoundAssociations)
            /\ fResult.out.State # "disassociated"
        /\ (ListOk /\ Len(Listed) = 0) => NotFound(fResult.err)
    /\ FinderDone({"findRouteTableAssociationByID", "findMainRouteTableAssociationByID"}) =>
        /\ fResult.err = "nil" => fResult.out.Id = fn.arg
        /\ (TableFound /\ \A i \in DOMAIN FoundAssociations :
                            FoundAssociations[i].Id = fn.arg =>
                                FoundAssociations[i].State = "disassociated")
            => fResult.err = "NotFoundError"
    /\ FinderDone({"findMainRouteTableAssociationByID",
                   "findMainRouteTableAssociationByVPCID"}) =>
        (fResult.err = "nil" => fResult.out.Main)
    /\ FinderDone({"findMainRouteTableAssociationByID"}) =>
        ((TableFound /\ \A i \in DOMAIN FoundAssociations :
                            FoundAssociations[i].Id = fn.arg => ~FoundAssociations[i].Main)
            => fResult.err = "NotFoundError")
    /\ FinderDone({"findMainRouteTableAssociationByVPCID"}) =>
        LET live == {i \in DOMAIN FoundAssociations :
                        /\ FoundAssociations[i].Main
                        /\ FoundAssociations[i].State # "disassociated"}
        IN  /\ (TableFound /\ live = {}) => fResult.err = "NotFoundError"
            /\ (TableFound /\ live # {}) =>
                    fResult = Result(FoundAssociations[CHOOSE i \in live :
                                                        \A j \in live : i <= j], "nil")

\* C17's case: the VPC's main route table holds a disassociated main association
\* before the live one, and the finder by VPC returns the live one
C17_Witness ==
    /\ FinderDone({"findMainRouteTableAssociationByVPCID"}) /\ TableFound
    /\ Len(FoundAssociations) = 2
    /\ FoundAssociations[1].Main /\ FoundAssociations[1].State = "disassociated"
    /\ fResult = Result(FoundAssociations[2], "nil")

\* what the list finder of the finished call returned, from the pages served
ListResult ==
    IF ListOk THEN Result(Listed, "nil")
    ELSE LET code == served[Len(served)].err IN
         Result(<<>>, IF code = NotFoundCodes[ListFinderOf(fn.name)]
                      THEN "NotFoundError" ELSE code)

VPCEndpointExistsFinders ==
    {"findVPCEndpointRouteTableAssociationExistsV2",
     "findVPCEndpointSecurityGroupAssociationExistsV2",
     "findVPCEndpointSubnetAssociationExistsV2"}

\* the parent lookup of the finished existence finder
ParentLookup ==
    IF fn.name = "findVPNGatewayRoutePropagationExists"
    THEN findRouteTable(ListResult)
    ELSE findVPCEndpointByIDV2(ListResult, fn.id)

\* the parent the existence finder looked up holds what the finder was asked for
AssociationExists(parent) ==
    CASE fn.name = "findVPNGatewayRoutePropagationExists" ->
            \E i \in DOMAIN parent.PropagatingVgws :
                parent.PropagatingVgws[i].GatewayId = fn.arg
      [] fn.name = "findVPCEndpointRouteTableAssociationExistsV2" ->
            fn.arg \in Range(parent.RouteTableIds)
      [] fn.name = "findVPCEndpointSecurityGroupAssociationExistsV2" ->
            \E i \in DOMAIN parent.Groups : parent.Groups[i].GroupId = fn.arg
      [] fn.name = "findVPCEndpointSubnetAssociationExistsV2" ->
            fn.arg \in Range(parent.SubnetIds)

\* C18: an existence finder returns the parent lookup's error as it is when the
\* lookup fails; when it succeeds, nil exactly when the parent holds the
\* association asked for and a NotFoundError exactly when it does not.
C18_ExistenceFinder ==
    FinderDone({"findVPNGatewayRoutePropagationExists"} \cup VPCEndpointExistsFinders) =>
        /\ fResult.out = Nil
        /\ ParentLookup.err # "nil" => fResult.err = ParentLookup.err
        /\ ParentLookup.err = "nil" =>
            /\ fResult.err = "nil" <=> AssociationExists(ParentLookup.out)
            /\ fResult.err = "NotFoundError" <=> ~AssociationExists(ParentLookup.out)

\* C18's case: the gateway asked for does not propagate into the route table, which
\* has another propagating gateway
C18_Witness ==
    /\ FinderDone({"findVPNGatewayRoutePropagationExists"}) /\ TableFound
    /\ Listed[1].PropagatingVgws = <<[GatewayId |-> "vgw-2"]>>
    /\ fn.arg = "vgw-1"
    /\ fResult = Result(Nil, "NotFoundError")

\* the by-ID finders with an eventual consistency check
ByIDFinders ==
    {"findVPCEndpointByIDV2", "findClientVPNEndpointByID", "findCarrierGatewayByID",
     "findVPNConnectionByID", "findVPNGatewayByID", "findCustomerGatewayByID",
     "findVPCEndpointServiceConfigurationByIDV2", "findNetworkACLByIDV2",
     "findNetworkInterfaceByIDV2"}

\* the terminal states of the object the finished finder looks up
TerminalStates ==
    IF fn.name = "findVPCEndpointServiceConfigurationByIDV2"
    THEN {"Deleted", "Failed"}
    ELSE {"deleted"}

\* C21: a by-ID finder with an eventual consistency check returns no object whose
\* identifier differs from the identifier asked for and no object in its terminal
\* deleted state (deleted or failed for a VPC endpoint service configuration); when
\* the lookup gives such an object the finder returns a NotFoundError and no object.
C21_ByIDFinder ==
    FinderDone(ByIDFinders) =>
        /\ fResult.err = "nil" =>
            /\ fResult.out # Nil
            /\ fResult.out.Id = fn.id
            /\ fResult.out.State \notin TerminalStates
        /\ (/\ ListOk /\ Len(Listed) = 1
            /\ Listed[1].Id # fn.id \/ Listed[1].State \in TerminalStates)
           => fResult = Result(Nil, "NotFoundError")

\* C21's case: the service answered the lookup of a VPN connection with a live VPN
\* connection that carries another identifier
C21_Witness ==
    /\ FinderDone({"findVPNConnectionByID"}) /\ ListOk
    /\ Listed = <<[Key |-> "vpn-1", Id |-> "vpn-2", State |-> "available"]>>
    /\ fn.id = "vpn-1"
    /\ fResult = Result(Nil, "NotFoundError")

-----------------------------------------------------------------------------
(* Lock tokens of the Web ACL mutations *)

\* the step is a provider call of UpdateWebACL or DeleteWebACL
MutationIssued ==
    /\ kind = "webacl"
    /\ Len(calls') = Len(calls) + 1
    /\ calls'[Len(calls')].api \in Mutations

\* the tokens the GetWebACL refreshes of the retry path returned in this callback
RefreshedTokens ==
    {calls[j].tok : j \in {i \in DOMAIN calls :
                            /\ calls[i].at \in {"upd_refresh", "del_refresh"}
                            /\ calls[i].ans = "OK"}}

\* C19: every UpdateWebACL and DeleteWebACL the provider issues carries the lock
\* token the last Read recorded in state or the one a GetWebACL refresh of the retry
\* path returned in this callback, and the call changes or deletes the remote Web
\* ACL only if that token is the Web ACL's current one.
C19_MutationsCarryKnownToken ==
    [][MutationIssued =>
        LET call == calls'[Len(calls')] IN
        /\ call.tok = dLockToken \/ call.tok \in RefreshedTokens
        /\ (<<rExists, rRules, rCfg, rToken>>' # <<rExists, rRules, rCfg, rToken>>)
                => (rExists /\ call.tok = rToken /\ call.ans = "OK")]_vars

\* C19's case: the Web ACL changed after the Read, the Delete met the conflict and
\* the retried DeleteWebACL, carrying the refreshed token, deleted it
C19_Witness ==
    /\ kind = "webacl" /\ op = "delete" /\ pc = "done" /\ ret = "nil" /\ ~rExists
    /\ Len(calls) = 3
    /\ calls[1].api = "DeleteWebACL" /\ calls[1].tok = dLockToken
    /\ calls[1].ans = "WAFOptimisticLockException"
    /\ calls[2].at = "del_refresh" /\ calls[2].ans = "OK" /\ calls[2].tok # dLockToken
    /\ calls[3].api = "DeleteWebACL" /\ calls[3].tok = calls[2].tok
    /\ calls[3].ans = "OK"

-----------------------------------------------------------------------------
(* Termination of the Web ACL callbacks *)

InitWebACL == Init /\ kind = "webacl"

\* one step of the Web ACL callback that is running; the provider runs a callback
\* to its return without waiting for anything but the remote's answers
CallbackStep ==
    \/ resourceWebACLCreate_call
    \/ resourceWebACLRead
    \/ resourceWebACLUpdate_find
    \/ resourceWebACLUpdate_call
    \/ retryResourceWebACLUpdateOptmisticLockFailure
    \/ retryResourceWebACLUpdateOptmisticLockFailure_call
    \/ resourceWebACLDelete_call
    \/ retryResourceWebACLDeleteOptmisticLockFailure
    \/ retryResourceWebACLDeleteOptmisticLockFailure_call

\* the engine's calls and the environment
NextWebACL ==
    \/ resourceWebACLCreate
    \/ ReadBegin
    \/ resourceWebACLUpdate
    \/ resourceWebACLDelete
    \/ CallbackStep
    \/ Return
    \/ ShieldEnable
    \/ ShieldDisable
    \/ Disappears

SpecFair == InitWebACL /\ [][NextWebACL]_vars /\ WF_vars(CallbackStep)

C20_Running == kind = "webacl" /\ op \in {"create", "update", "delete"} /\ pc \notin {"idle", "done"}

C20_Returned == pc = "done" /\ ret # "none"

\* the calls of the optimistic-lock path: the GetWebACL refreshes and the attempts
\* of the retried mutation
C20_Refreshes == {i \in DOMAIN calls : calls[i].at \in {"upd_refresh", "del_refresh"}}
C20_RetriedAttempts == {i \in DOMAIN calls : calls[i].at \in {"upd_retry", "del_retry"}}

C20_Bounded ==
    /\ Cardinality(C20_Refreshes) <= 1
    /\ Cardinality(C20_RetriedAttempts) <= MaxAttempts
    /\ \A i \in C20_RetriedAttempts :
            i < Len(calls) => calls[i].ans \in {"WAFAssociatedItemException",
                                                "WAFUnavailableEntityException"}
    /\ Len(calls) <= 2 * MaxAttempts + 3

\* C20: every Create, Update and Delete of a Web ACL that has begun returns, with
\* success or with an error; the optimistic-lock path makes at most one GetWebACL
\* refresh and one retried mutation, whose wrapper repeats it only on a retryable
\* answer and until its timeout, and the callback makes no call after the retried
\* mutation's final answer.
C20_CallbacksTerminate ==
    /\ [](C20_Bounded)
    /\ C20_Running ~> C20_Returned

\* C20's case: a Delete that met an unavailable answer, the lock conflict, the
\* refresh, an associated-item answer of the retried call, and then deleted
C20_Witness ==
    /\ kind = "webacl" /\ op = "delete" /\ pc = "done" /\ ret = "nil"
    /\ calls[1].ans = "WAFUnavailableEntityException"
    /\ Cardinality(C20_Refreshes) = 1
    /\ \E i \in C20_RetriedAttempts : calls[i].ans = "WAFAssociatedItemException"
    /\ calls[Len(calls)].at = "del_retry" /\ calls[Len(calls)].ans = "OK"

====
